---- MODULE Spec2Model ----
(***************************************************************************)
(* A model of mkvauto's encode pipeline: the persistent encode Queue       *)
(* (internal/encode/queue.go, state.go), the encode Worker                 *)
(* (internal/encode/worker.go), the HandBrake supervisor and the operator  *)
(* commands of the terminal UI that drive them.                            *)
(*                                                                         *)
(* The specifications:                                                     *)
(*   SpecQueue  the Queue as a shared object: concurrent callers of its    *)
(*              methods, Save in its file-system steps, process crashes    *)
(*              and the LoadState of the next start.                       *)
(*   SpecOps    single calls of the Queue's methods and of Save/Load on    *)
(*              arbitrary queue contents.                                  *)
(*   Spec       the running system: Worker, HandBrake, progress            *)
(*              forwarders, the UI's key handlers and the ripper's Add.    *)
(*   SpecCtl    the running system with an encoder that prints no          *)
(*              percentages, followed through more operator keys.          *)
(*   SpecDisc   the disc Detector, handleDisks and the processDisc tasks   *)
(*              (SpecDiscLive: with fairness).                             *)
(*   SpecParser single calls of SelectTitles and CalculatePercentage.      *)
(*   SpecRip    one processDisc task with the operator's keys.             *)
(*   SpecLock   instances of the program at App.Run's lock file.           *)
(*   SpecScan   scans for raw files without an encode, beside other Adds.  *)
(*   SpecOutput the encoder's percentage lines on their way to the queue.  *)
(*   SpecStop   SpecCtl with fairness, started with an item in the queue.  *)
(*   SpecTitle  one call of RipTitle with its readers and channels.        *)
(*   SpecTasks  SpecRip followed through the next disc.                    *)
(*   SpecInfo   ParseInfo called twice on the same output.                 *)
(***************************************************************************)
EXTENDS Integers, Sequences, FiniteSets, TLC

VARIABLES
    items,      \* Queue.items: the in-memory sequence of QueueItems
    disk,       \* the file at StatePersistence.filePath
    tmp,        \* the file at filePath + ".tmp"
    added,      \* number of QueueItems created so far (ids are unique)
    faults,     \* number of I/O failures and crashes so far
    calls,      \* number of calls so far: Queue methods (SpecQueue), operator keys
                \* and Adds (Spec)
    \* ---- the Queue as a shared object (SpecQueue)
    phase,      \* "boot" | "loaded" | "running": App.Run before/after LoadState
    lock,       \* Queue.mu: [w |-> writer or "none", r |-> set of readers]
    qpc,        \* per caller: position inside a Queue method
    qop,        \* per caller: the method being executed
    fd,         \* per caller: where the file opened by os.WriteFile is now
    loaded,     \* LoadState's local (items, err) returned by persistence.Load
    lastRet,    \* the call that returned in the last step, if any: method, whether
                \* reading or writing the file failed during it (ioerr), whether
                \* it returned nil (ok) and whether it found the item it names
    prev,       \* SpecOps: Queue.items as they were when that call began
    \* ---- the running system (Spec)
    wpc,        \* Worker: position in Run / encodeItem
    cur,        \* Worker: the item returned by GetNext / driven by encodeItem
    paused,     \* Worker.paused
    shouldDeleteCurrent, \* Worker.shouldDeleteCurrent
    controlCh,  \* App.workerControl
    encodeDone, \* encodeItem's encodeDone channel (capacity 1)
    enc,        \* per item: the HandBrake.Encode goroutine and its process
    hbCmd,      \* HandBrake.cmd: [id, proc]
    hbPaused,   \* HandBrake.paused
    pch,        \* per item: encodeItem's progressCh buffer
    hold,       \* per item: value the forwarder has received and not yet sent on
    stale,      \* values still held by forwarders of earlier encodes of an item
    appCh,      \* the Worker.progressCh (App.Run's progressCh)
    currentEncode, \* ui Model.currentEncode
    encodePaused,  \* ui Model.encodePaused
    silent,     \* the encoder prints no percentage lines (fixed by Init)
    handled,    \* history: the commands handleControl has handled, each with the
                \* item the worker was driving, and the removals by handleResult
    done,       \* history: the encodeItem that returned in the last step, if any:
                \* its item and error, and what `handled` showed when it returned
    notified,   \* history: per item, the number of encode-complete events that
                \* named it, counted up to Many
    \* ---- the disc drive (SpecDisc)
    drive,      \* the status the drive reports to CDROM_DRIVE_STATUS now
    dpc,        \* Detector.Start's goroutine: "tick" | "settle" | "send"
    lastStatus, \* Detector.Start's local lastStatus
    diskCh,     \* the channel returned by Detector.Start (capacity 1)
    tasks,      \* per event: where the processDisc goroutine started for it is
    polls,      \* number of checkDriveStatus calls so far
    emitted,    \* history: events the detector has reached `ch <-` with
    received,   \* history: events handleDisks has received
    reads,      \* history: the results of the last two checkDriveStatus calls
    sawNotReady, \* history: a status other than CDS_DISC_OK was read since the
                \* last event (since Start, before the first)
    \* ---- the MakeMKV output parser (SpecParser)
    args,       \* the function called and its arguments
    result,     \* [done, val]: whether the call has returned, and what
    \* ---- one processDisc task (SpecRip)
    rpc,        \* processDisc: position in the function
    mon,        \* processDisc's cancel monitor goroutine: position
    scanned,    \* scanResult.Titles
    selectedTitles, \* processDisc's selectedTitles
    ripIdx,     \* index of the rip loop
    ripCancelled,   \* ripCtx.Err() != nil
    manuallyCancelled, \* processDisc's manuallyCancelled
    cancelRipCh,    \* App.cancelRipCh: number of buffered requests (capacity 1)
    titleSelectionCh, \* App.titleSelectionCh (capacity 1)
    ripState,   \* ui Model.ripState
    rlog,       \* history: what the task and the operator have done, in order
    \* ---- the lock file of App.Run (SpecLock)
    lockFile,   \* the file at ~/.mkvauto/mkvauto.lock
    lpc,        \* per instance of the program: position in App.Run
    removals,   \* history: the os.Remove calls that removed a lock file
    \* ---- the scan for raw files without an encode (SpecScan)
    scanRequestCh, \* App.scanRequestCh: number of buffered requests (capacity 1)
    spc,        \* per scanForMissingEncodes goroutine: position
    scanAt,     \* per goroutine: index of the raw file its loop is at
    encoded,    \* the raw files whose encoded file exists
    scanLog,    \* history: the queue.Add calls of the scans
    \* ---- one RipTitle call and its two channels (SpecTitle)
    mkv,        \* the makemkvcon process: "none" | "running" | "exited"
    tpc,        \* processDisc around RipTitle: position
    rd,         \* per reader goroutine of RipTitle: position, scanner buffer, line
    pipe,       \* per reader: the lines written to its pipe and not read yet
    ripCh,      \* ripProgressCh and ripLogCh: buffered values, and whether closed
    written,    \* number of lines makemkvcon has written
    late        \* history: the sends executed on a closed channel

qvars == <<phase, lock, qpc, qop, fd, loaded, lastRet, prev>>
svars == <<wpc, cur, paused, shouldDeleteCurrent, controlCh, encodeDone, enc,
           hbCmd, hbPaused, pch, hold, stale, appCh, currentEncode, encodePaused>>
dvars == <<drive, dpc, lastStatus, diskCh, tasks, polls, emitted, received, sawNotReady,
           reads>>
tvars == <<args, result>>
rvars == <<rpc, mon, scanned, selectedTitles, ripIdx, ripCancelled, manuallyCancelled,
           cancelRipCh, titleSelectionCh, ripState, rlog>>
lvars == <<lockFile, lpc, removals>>
mvars == <<scanRequestCh, spc, scanAt, encoded, scanLog>>
yvars == <<mkv, tpc, rd, pipe, ripCh, written, late>>
xvars == <<lvars, mvars, yvars>>
pvars == <<tvars, rvars, xvars>>
wvars == <<svars, silent, notified, handled, done, dvars, pvars>>
vars == <<items, disk, tmp, added, faults, calls, qvars, wvars>>

----------------------------------------------------------------------------
(* Bounds of the model *)

MaxItems == 2        \* QueueItems ever created
MaxFaults == 1       \* I/O failures and process crashes in one behaviour
MaxCalls == 3        \* SpecQueue: Queue methods called in one behaviour
MaxOtherCalls == 2   \* Spec: operator keys and Adds in one behaviour
MaxCtlCalls == 3     \* SpecCtl: operator keys and Adds in one behaviour
ControlChCap == 2    \* modelled capacity of workerControl (10 in the code)
ProgressChCap == 1   \* modelled capacity of the progress channels (10 in the code)
MaxPolls == 6        \* SpecDisc: checkDriveStatus calls in one behaviour
MaxTitles == 3       \* SpecParser: titles of one scan
MaxDuration == 3     \* SpecParser: longest title duration, in units of time
MaxProgress == 3     \* SpecParser: largest number of a PRGV line
MaxInstances == 2    \* SpecLock: instances of the program started
MaxScans == 2        \* SpecScan: scanForMissingEncodes goroutines started
MaxFiles == 2        \* SpecScan: .mkv files in the raw folders
MaxPercent == 150    \* SpecOutput: largest number the encoder prints before "%"
MaxLines == 3        \* SpecTitle: lines makemkvcon writes during one RipTitle
MaxTasks == 2        \* SpecTasks: processDisc tasks started in one behaviour
MaxRuns == 2         \* SpecInfo: runs of ParseInfo on one output

----------------------------------------------------------------------------
(* ItemStatus, queue.go *)

StatusQueued == 0
StatusEncoding == 1
StatusPaused == 2
StatusComplete == 3
StatusFailed == 4

ItemStatus == {StatusQueued, StatusEncoding, StatusPaused, StatusComplete, StatusFailed}

IDs == 1..MaxItems
NoItem == 0          \* a nil *QueueItem
NoTime == 0          \* a nil *time.Time
Now == 1             \* the value of time.Now(): a QueueItem shows only nil or not nil
Times == {Now}
EncoderValues == {50}             \* percentages parsed from the encoder's output
Many == 2                         \* `notified` counts 0, 1 and "two or more"

ErrCancelled == "cancelled by user"
ErrExit == "HandBrakeCLI failed: exit status 1"
ErrSignal == "HandBrakeCLI failed: signal: killed"
ErrStart == "failed to start HandBrakeCLI with PTY"

(* The QueueItem the ripper or the scan builds for a new file *)
NewItem(n) ==
    [ID |-> n, SourcePath |-> n, DestPath |-> n, DiscType |-> 0, DiscName |-> "disc",
     TitleName |-> n, Status |-> StatusQueued, Progress |-> 0, CreatedAt |-> 1,
     StartedAt |-> NoTime, CompletedAt |-> NoTime, Error |-> ""]

----------------------------------------------------------------------------
(* The Queue's methods as functions of the item sequence *)

HasID(q, id) == \E i \in 1..Len(q) : q[i].ID = id

(* index of the first item the `for _, item := range q.items` loop matches *)
FirstIndex(q, id) ==
    CHOOSE i \in 1..Len(q) : q[i].ID = id /\ \A j \in 1..(i - 1) : q[j].ID # id

RECURSIVE GetNextFrom(_, _)
GetNextFrom(q, i) ==
    IF i > Len(q) THEN NoItem
    ELSE IF q[i].Status = StatusQueued THEN q[i].ID
    ELSE GetNextFrom(q, i + 1)

GetNextLastQueued(q) ==
    IF \E i \in 1..Len(q) : q[i].Status = StatusQueued
    THEN q[CHOOSE i \in 1..Len(q) : q[i].Status = StatusQueued
              /\ \A j \in (i + 1)..Len(q) : q[j].Status # StatusQueued].ID
    ELSE NoItem

GetNext(q) == GetNextFrom(q, 1)

RECURSIVE GetCurrentFrom(_, _)
GetCurrentFrom(q, i) ==
    IF i > Len(q) THEN NoItem
    ELSE IF q[i].Status = StatusEncoding THEN q[i].ID
    ELSE GetCurrentFrom(q, i + 1)

GetCurrent(q) == GetCurrentFrom(q, 1)

(* an Add that puts the item in front *)
AddFirst(q, item) == <<item>> \o q

Add(q, item) == Append(q, item)

UpdateProgress(q, id, progress) ==
    IF HasID(q, id)
    THEN [q EXCEPT ![FirstIndex(q, id)].Progress = progress]
    ELSE q

SetStatus(q, id, status, now) ==
    IF HasID(q, id)
    THEN LET i == FirstIndex(q, id) IN
         [q EXCEPT ![i] =
            [q[i] EXCEPT !.Status = status,
                         !.StartedAt = IF status = StatusEncoding THEN now ELSE @,
                         !.CompletedAt = IF status \in {StatusComplete, StatusFailed}
                                         THEN now ELSE @]]
    ELSE q

Complete(q, id, now) == SetStatus(q, id, StatusComplete, now)

FailErrorOnly(q, id, err, now) ==
    IF HasID(q, id)
    THEN [q EXCEPT ![FirstIndex(q, id)].Error = err]
    ELSE q

Fail(q, id, err, now) ==
    IF HasID(q, id)
    THEN LET i == FirstIndex(q, id) IN
         [q EXCEPT ![i] = [q[i] EXCEPT !.Status = StatusFailed, !.Error = err,
                                       !.CompletedAt = now]]
    ELSE q

Keep(item) == item.Status # StatusComplete /\ item.Status # StatusFailed

ClearCompletedOnlyComplete(q) ==
    SelectSeq(q, LAMBDA item : item.Status # StatusComplete)

ClearCompleted(q) == SelectSeq(q, Keep)

ResetItem(item) ==
    [item EXCEPT !.Status = StatusQueued, !.Progress = 0, !.Error = "",
                 !.StartedAt = NoTime, !.CompletedAt = NoTime]

RetryFailedOnlyFailed(q) ==
    [i \in 1..Len(q) |-> IF q[i].Status = StatusFailed THEN ResetItem(q[i]) ELSE q[i]]

RetryFailed(q) ==
    [i \in 1..Len(q) |->
        IF q[i].Status = StatusFailed \/ q[i].Status = StatusEncoding
        THEN ResetItem(q[i]) ELSE q[i]]

Remove(q, id) == SelectSeq(q, LAMBDA item : item.ID # id)

(* LoadState's loop over the loaded items *)
ResetEncodingNone(q) == q

ResetEncoding(q) ==
    [i \in 1..Len(q) |->
        IF q[i].Status = StatusEncoding
        THEN [q[i] EXCEPT !.Status = StatusQueued, !.Progress = 0, !.StartedAt = NoTime]
        ELSE q[i]]

----------------------------------------------------------------------------
(* StatePersistence: the JSON form of the queue and the two files *)

(* time.Time marshals to an RFC 3339 string and parses back *)
MarshalTime(t) == [rfc3339 |-> t]
UnmarshalTime(v) == v.rfc3339

(* the keys json.MarshalIndent writes for one QueueItem: `omitempty` drops a
   nil started_at / completed_at and an empty error *)
JSONKeys(item) ==
    {"id", "source_path", "dest_path", "disc_type", "disc_name", "title_name",
     "status", "progress", "created_at"}
    \cup (IF item.StartedAt # NoTime THEN {"started_at"} ELSE {})
    \cup (IF item.CompletedAt # NoTime THEN {"completed_at"} ELSE {})
    \cup (IF item.Error # "" THEN {"error"} ELSE {})

MarshalItem(item) ==
    [k \in JSONKeys(item) |->
        CASE k = "id" -> item.ID
          [] k = "source_path" -> item.SourcePath
          [] k = "dest_path" -> item.DestPath
          [] k = "disc_type" -> item.DiscType
          [] k = "disc_name" -> item.DiscName
          [] k = "title_name" -> item.TitleName
          [] k = "status" -> item.Status
          [] k = "progress" -> item.Progress
          [] k = "created_at" -> MarshalTime(item.CreatedAt)
          [] k = "started_at" -> MarshalTime(item.StartedAt)
          [] k = "completed_at" -> MarshalTime(item.CompletedAt)
          [] k = "error" -> item.Error]

(* json.Unmarshal into a zero QueueItem: a missing key leaves the zero value *)
UnmarshalItemNoError(o) ==
    [ID |-> o["id"], SourcePath |-> o["source_path"], DestPath |-> o["dest_path"],
     DiscType |-> o["disc_type"], DiscName |-> o["disc_name"],
     TitleName |-> o["title_name"], Status |-> o["status"], Progress |-> o["progress"],
     CreatedAt |-> UnmarshalTime(o["created_at"]),
     StartedAt |-> IF "started_at" \in DOMAIN o
                   THEN UnmarshalTime(o["started_at"]) ELSE NoTime,
     CompletedAt |-> IF "completed_at" \in DOMAIN o
                     THEN UnmarshalTime(o["completed_at"]) ELSE NoTime,
     Error |-> ""]

UnmarshalItem(o) ==
    [ID |-> o["id"], SourcePath |-> o["source_path"], DestPath |-> o["dest_path"],
     DiscType |-> o["disc_type"], DiscName |-> o["disc_name"],
     TitleName |-> o["title_name"], Status |-> o["status"], Progress |-> o["progress"],
     CreatedAt |-> UnmarshalTime(o["created_at"]),
     StartedAt |-> IF "started_at" \in DOMAIN o
                   THEN UnmarshalTime(o["started_at"]) ELSE NoTime,
     CompletedAt |-> IF "completed_at" \in DOMAIN o
                     THEN UnmarshalTime(o["completed_at"]) ELSE NoTime,
     Error |-> IF "error" \in DOMAIN o THEN o["error"] ELSE ""]

(* A file: absent, truncated/partly written, or a complete JSON array *)
FileAbsent == [kind |-> "absent", body |-> <<>>]
FilePartial == [kind |-> "partial", body |-> <<>>]

(* json.MarshalIndent(items): the complete file for an item sequence *)
Marshal(q) == [kind |-> "data", body |-> [i \in 1..Len(q) |-> MarshalItem(q[i])]]

(* StatePersistence.Load: (items, err) *)
Load(file) ==
    CASE file.kind = "absent" -> [err |-> FALSE, items |-> <<>>]
      [] file.kind = "partial" -> [err |-> TRUE, items |-> <<>>]
      [] file.kind = "data" ->
            [err |-> FALSE,
             items |-> [i \in 1..Len(file.body) |-> UnmarshalItem(file.body[i])]]

(* StatePersistence.Save run without interruption: the possible (err, final file,
   temporary file) after it, from files d and t.  It fails before writing
   (MkdirAll, Marshal, opening the temporary file), while writing, or at the
   rename. *)
SaveOutcomes(q, d, t) ==
    {[err |-> FALSE, disk |-> Marshal(q), tmp |-> FileAbsent],
     [err |-> TRUE, disk |-> d, tmp |-> t],
     [err |-> TRUE, disk |-> d, tmp |-> FilePartial],
     [err |-> TRUE, disk |-> d, tmp |-> Marshal(q)]}

----------------------------------------------------------------------------
(* SpecQueue: the Queue shared by concurrent callers, Save step by step *)

Callers == {"a", "b"}
Main == "a"          \* the goroutine of App.Run, which calls LoadState
QErrors == {ErrExit}
QProgress == {50}
\* the statuses SetStatus is called with other than through Complete: by
\* Queue.Resume, Worker.encodeItem and Queue.Pause
QStatuses == {StatusQueued, StatusEncoding, StatusPaused}

NoRet == [c |-> "none", op |-> "none", ok |-> FALSE, found |-> FALSE, ioerr |-> FALSE]
Unlocked == [w |-> "none", r |-> {}]

CanLock == lock.w = "none" /\ lock.r = {}
CanRLock == lock.w = "none"

Idle(c) ==
    /\ phase = "running" /\ qpc[c] = "idle"
    /\ calls < MaxCalls /\ calls' = calls + 1

(* q.mu.Lock(); the mutation; then into q.persistence.Save(q.items) *)
BeginSave(c, op, q) ==
    /\ CanLock
    /\ items' = q
    /\ lock' = [lock EXCEPT !.w = c]
    /\ qpc' = [qpc EXCEPT ![c] = "open"]
    /\ qop' = [qop EXCEPT ![c] = op]
    /\ lastRet' = NoRet
    /\ UNCHANGED <<disk, tmp, fd, phase, loaded, faults, prev, wvars>>

(* q.mu.Lock(); the loop finds no item; return nil *)
ReturnNil(c, op) ==
    /\ CanLock
    /\ lastRet' = [c |-> c, op |-> op, ok |-> TRUE, found |-> FALSE, ioerr |-> FALSE]
    /\ UNCHANGED <<items, disk, tmp, added, faults, phase, lock, qpc, qop, fd, loaded, prev, wvars>>

QAdd(c) ==
    /\ Idle(c) /\ added < MaxItems
    /\ added' = added + 1
    /\ BeginSave(c, "Add", Add(items, NewItem(added + 1)))

QUpdateProgress(c, id, progress) ==
    /\ Idle(c)
    /\ IF HasID(items, id)
       THEN BeginSave(c, "UpdateProgress", UpdateProgress(items, id, progress))
            /\ UNCHANGED added
       ELSE ReturnNil(c, "UpdateProgress")

QSetStatus(c, id, status, now) ==
    /\ Idle(c)
    /\ IF HasID(items, id)
       THEN BeginSave(c, "SetStatus", SetStatus(items, id, status, now))
            /\ UNCHANGED added
       ELSE ReturnNil(c, "SetStatus")

QComplete(c, id, now) ==
    /\ Idle(c)
    /\ IF HasID(items, id)
       THEN BeginSave(c, "Complete", Complete(items, id, now)) /\ UNCHANGED added
       ELSE ReturnNil(c, "Complete")

QFail(c, id, err, now) ==
    /\ Idle(c)
    /\ IF HasID(items, id)
       THEN BeginSave(c, "Fail", Fail(items, id, err, now)) /\ UNCHANGED added
       ELSE ReturnNil(c, "Fail")

QClearCompleted(c) ==
    /\ Idle(c)
    /\ BeginSave(c, "ClearCompleted", ClearCompleted(items))
    /\ UNCHANGED added

QRetryFailed(c) ==
    /\ Idle(c)
    /\ BeginSave(c, "RetryFailed", RetryFailed(items))
    /\ UNCHANGED added

QRemoveUnsaved(c, id) ==
    /\ Idle(c) /\ CanLock
    /\ items' = Remove(items, id)
    /\ lastRet' = [c |-> c, op |-> "Remove", ok |-> TRUE, found |-> TRUE, ioerr |-> FALSE]
    /\ UNCHANGED <<disk, tmp, added, faults, phase, lock, qpc, qop, fd, loaded, prev, wvars>>

QRemove(c, id) ==
    /\ Idle(c)
    /\ BeginSave(c, "Remove", Remove(items, id))
    /\ UNCHANGED added

(* SaveState: q.mu.RLock(), shared with other readers *)
QSaveState(c) ==
    /\ Idle(c) /\ CanRLock
    /\ lock' = [lock EXCEPT !.r = @ \cup {c}]
    /\ qpc' = [qpc EXCEPT ![c] = "open"]
    /\ qop' = [qop EXCEPT ![c] = "SaveState"]
    /\ lastRet' = NoRet
    /\ UNCHANGED <<items, disk, tmp, added, faults, fd, phase, loaded, prev, wvars>>

(* Save returns to the Queue method, whose deferred Unlock/RUnlock runs.
   LoadState drops Save's error and returns nil. *)
SaveReturns(c, ok) ==
    /\ lock' = IF lock.w = c THEN [lock EXCEPT !.w = "none"]
               ELSE [lock EXCEPT !.r = @ \ {c}]
    /\ qpc' = [qpc EXCEPT ![c] = "idle"]
    /\ lastRet' = [c |-> c, op |-> qop[c], ok |-> (ok \/ qop[c] = "LoadState"),
                   found |-> TRUE, ioerr |-> ~ok]
    /\ phase' = IF qop[c] = "LoadState" THEN "loaded" ELSE phase
    /\ UNCHANGED <<items, added, calls, qop, loaded, prev, wvars>>

(* MkdirAll, MarshalIndent or the open of os.WriteFile fails *)
SaveOpenFails(c) ==
    /\ qpc[c] = "open"
    /\ faults < MaxFaults /\ faults' = faults + 1
    /\ SaveReturns(c, FALSE)
    /\ UNCHANGED <<disk, tmp, fd>>

(* os.WriteFile opens filePath.tmp with O_CREATE|O_TRUNC: the file at that path is
   now empty *)
SaveOpen(c) ==
    /\ qpc[c] = "open"
    /\ tmp' = FilePartial
    /\ fd' = [fd EXCEPT ![c] = "tmp"]
    /\ qpc' = [qpc EXCEPT ![c] = "write"]
    /\ lastRet' = NoRet
    /\ UNCHANGED <<items, disk, added, faults, calls, phase, lock, qop, loaded, prev, wvars>>

(* the write fails (disk full): the opened file stays incomplete *)
SaveWriteFails(c) ==
    /\ qpc[c] = "write"
    /\ faults < MaxFaults /\ faults' = faults + 1
    /\ fd' = [fd EXCEPT ![c] = "none"]
    /\ SaveReturns(c, FALSE)
    /\ UNCHANGED <<disk, tmp>>

(* os.WriteFile writes the data into the file it opened and closes it; that file
   is wherever a rename by another caller has moved it meanwhile *)
SaveWrite(c) ==
    /\ qpc[c] = "write"
    /\ tmp' = IF fd[c] = "tmp" THEN Marshal(items) ELSE tmp
    /\ disk' = IF fd[c] = "final" THEN Marshal(items) ELSE disk
    /\ fd' = [fd EXCEPT ![c] = "none"]
    /\ qpc' = [qpc EXCEPT ![c] = "rename"]
    /\ lastRet' = NoRet
    /\ UNCHANGED <<items, added, faults, calls, phase, lock, qop, loaded, prev, wvars>>

(* os.Rename fails: it does when filePath.tmp is gone, and it may otherwise *)
SaveRenameFails(c) ==
    /\ qpc[c] = "rename"
    /\ IF tmp.kind = "absent" THEN UNCHANGED faults
       ELSE faults < MaxFaults /\ faults' = faults + 1
    /\ SaveReturns(c, FALSE)
    /\ UNCHANGED <<disk, tmp, fd>>

(* os.Rename(tmpPath, filePath) *)
SaveRename(c) ==
    /\ qpc[c] = "rename"
    /\ tmp.kind # "absent"
    /\ disk' = tmp
    /\ tmp' = FileAbsent
    /\ fd' = [d \in Callers |->
                CASE fd[d] = "tmp" -> "final"
                  [] fd[d] = "final" -> "orphan"
                  [] OTHER -> fd[d]]
    /\ SaveReturns(c, TRUE)
    /\ UNCHANGED faults

(* Queue.LoadState, called by App.Run before any goroutine is started *)
LoadState ==
    /\ phase = "boot" /\ qpc[Main] = "idle"
    /\ loaded' = Load(disk)
    /\ IF loaded'.err
       THEN /\ phase' = "loaded"
            /\ lastRet' = [c |-> Main, op |-> "LoadState", ok |-> TRUE, found |-> FALSE,
                           ioerr |-> TRUE]
            /\ UNCHANGED <<items, lock, qpc, qop>>
       ELSE /\ items' = ResetEncoding(loaded'.items)
            /\ lock' = [lock EXCEPT !.w = Main]
            /\ qpc' = [qpc EXCEPT ![Main] = "open"]
            /\ qop' = [qop EXCEPT ![Main] = "LoadState"]
            /\ lastRet' = NoRet
            /\ UNCHANGED phase
    /\ UNCHANGED <<disk, tmp, added, faults, calls, fd, prev, wvars>>

(* App.Run goes on to start the goroutines that use the queue *)
StartLoops ==
    /\ phase = "loaded"
    /\ phase' = "running"
    /\ lastRet' = NoRet
    /\ UNCHANGED <<items, disk, tmp, added, faults, calls, lock, qpc, qop, fd, loaded, prev, wvars>>

(* The process dies: memory is lost, the files stay as they are *)
Crash ==
    /\ phase # "boot" \/ qpc[Main] # "idle"
    /\ faults < MaxFaults /\ faults' = faults + 1
    /\ items' = <<>>
    /\ phase' = "boot"
    /\ lock' = Unlocked
    /\ qpc' = [c \in Callers |-> "idle"]
    /\ qop' = [c \in Callers |-> "none"]
    /\ fd' = [c \in Callers |-> "none"]
    /\ loaded' = [err |-> FALSE, items |-> <<>>]
    /\ lastRet' = NoRet
    /\ UNCHANGED <<disk, tmp, added, calls, prev, wvars>>

NoDone == [id |-> NoItem, err |-> "none", last |-> "none", pending |-> FALSE]

(* drive status values of the CDROM_DRIVE_STATUS ioctl, config.go *)
CDS_NO_INFO == 0
CDS_NO_DISC == 1
CDS_TRAY_OPEN == 2
CDS_DRIVE_NOT_READY == 3
CDS_DISC_OK == 4

DriveStatuses == {CDS_NO_INFO, CDS_NO_DISC, CDS_TRAY_OPEN, CDS_DRIVE_NOT_READY, CDS_DISC_OK}

DiskChCap == 1       \* make(chan DetectedDisc, 1)
MaxEvents == MaxPolls \div 2     \* an event takes two status reads at least
Events == 1..MaxEvents

(* Detector.Start up to the loop, with the drive reporting status d *)
DetectorInit(d) ==
    /\ drive = d
    /\ dpc = "tick" /\ lastStatus = CDS_NO_DISC /\ diskCh = <<>>
    /\ tasks = [n \in Events |-> "none"]
    /\ polls = 0 /\ emitted = 0 /\ received = 0 /\ sawNotReady = FALSE /\ reads = <<>>

(* no call of the parser's functions *)
NotReturned == [done |-> FALSE]
ParserIdle == args = [fn |-> "none"] /\ result = NotReturned

(* the parts of the program a specification leaves out, at rest *)
(* no disc is being processed *)
RipIdle ==
    /\ rpc = "none" /\ mon = "none" /\ scanned = <<>> /\ selectedTitles = <<>>
    /\ ripIdx = 0 /\ ripCancelled = FALSE /\ manuallyCancelled = FALSE
    /\ cancelRipCh = 0 /\ titleSelectionCh = <<>>
    /\ ripState = "Waiting" /\ rlog = <<>>

(* no instance of the program has started; there is no lock file *)
Instances == 1..MaxInstances
NoPid == 0
StalePid == MaxInstances + 1        \* the pid of a process that has ended
NoLockFile == [exists |-> FALSE, creator |-> NoPid, content |-> NoPid]
LockIdle ==
    /\ lockFile = NoLockFile /\ lpc = [i \in Instances |-> "start"] /\ removals = {}

(* no scan for missing encodes was asked for *)
Scanners == 1..MaxScans
ScanIdle ==
    /\ scanRequestCh = 0 /\ spc = [s \in Scanners |-> "none"]
    /\ scanAt = [s \in Scanners |-> 0] /\ encoded = {} /\ scanLog = <<>>

(* RipTitle has not been called *)
Readers == {"stdout", "stderr"}
Chans == {"progress", "log"}
NoLine == "none"
TitleIdle ==
    /\ mkv = "none" /\ tpc = "none"
    /\ rd = [r \in Readers |-> [pc |-> "none", buf |-> <<>>, line |-> NoLine]]
    /\ pipe = [r \in Readers |-> <<>>]
    /\ ripCh = [c \in Chans |-> [n |-> 0, closed |-> FALSE]]
    /\ written = 0 /\ late = {}

OthersIdle == ParserIdle /\ RipIdle /\ LockIdle /\ ScanIdle /\ TitleIdle

WorkerInit ==
    /\ wpc = "idle" /\ cur = NoItem /\ paused = FALSE /\ shouldDeleteCurrent = FALSE
    /\ controlCh = <<>> /\ encodeDone = "none"
    /\ enc = [i \in IDs |-> "none"]
    /\ hbCmd = [id |-> NoItem, proc |-> FALSE] /\ hbPaused = FALSE
    /\ pch = [i \in IDs |-> <<>>]
    /\ hold = [i \in IDs |-> -1]
    /\ stale = {}
    /\ appCh = <<>>
    /\ currentEncode = NoItem /\ encodePaused = FALSE
    /\ handled = <<>> /\ done = NoDone /\ notified = [i \in IDs |-> 0]

QueueInit ==
    /\ items = <<>> /\ disk = FileAbsent /\ tmp = FileAbsent /\ added = 0 /\ faults = 0 /\ calls = 0
    /\ lock = Unlocked
    /\ qpc = [c \in Callers |-> "idle"]
    /\ qop = [c \in Callers |-> "none"]
    /\ fd = [c \in Callers |-> "none"]
    /\ loaded = [err |-> FALSE, items |-> <<>>]
    /\ lastRet = NoRet /\ prev = <<>>

InitQueue ==
    QueueInit /\ phase = "boot" /\ WorkerInit /\ silent = FALSE /\ DetectorInit(CDS_NO_DISC)
    /\ OthersIdle

NextQueue ==
    \/ LoadState
    \/ StartLoops
    \/ Crash
    \/ \E c \in Callers :
        \/ QAdd(c)
        \/ \E id \in IDs, p \in QProgress : QUpdateProgress(c, id, p)
        \/ \E id \in IDs, st \in QStatuses, now \in Times : QSetStatus(c, id, st, now)
        \/ \E id \in IDs, now \in Times : QComplete(c, id, now)
        \/ \E id \in IDs, e \in QErrors, now \in Times : QFail(c, id, e, now)
        \/ QClearCompleted(c)
        \/ QRetryFailed(c)
        \/ \E id \in IDs : QRemove(c, id)
        \/ QSaveState(c)
        \/ SaveOpen(c) \/ SaveOpenFails(c)
        \/ SaveWrite(c) \/ SaveWriteFails(c)
        \/ SaveRename(c) \/ SaveRenameFails(c)

SpecQueue == InitQueue /\ [][NextQueue]_vars

----------------------------------------------------------------------------
(* SpecOps: single calls of the Queue's methods on arbitrary queue contents *)

OpsMaxLen == 2

(* progress, error, start and completion time an item can carry *)
OpsProfiles ==
    {[Progress |-> 0, Error |-> "", StartedAt |-> NoTime, CompletedAt |-> NoTime],
     [Progress |-> 50, Error |-> "", StartedAt |-> 1, CompletedAt |-> NoTime],
     [Progress |-> 100, Error |-> "", StartedAt |-> 1, CompletedAt |-> 1],
     [Progress |-> 50, Error |-> ErrExit, StartedAt |-> 1, CompletedAt |-> 1]}

OpsItem(n, st, pr) ==
    [NewItem(n) EXCEPT !.Status = st, !.Progress = pr.Progress, !.Error = pr.Error,
                       !.StartedAt = pr.StartedAt, !.CompletedAt = pr.CompletedAt]

OpsItems == {OpsItem(n, st, pr) : n \in 1..OpsMaxLen, st \in ItemStatus, pr \in OpsProfiles}

(* the sequences of at most OpsMaxLen items with distinct ids *)
OpsQueues ==
    UNION {{q \in [1..n -> OpsItems] : \A i, j \in 1..n : i # j => q[i].ID # q[j].ID} :
           n \in 0..OpsMaxLen}

Returned(op) == [c |-> Main, op |-> op, ok |-> TRUE, found |-> TRUE, ioerr |-> FALSE]

OpGetNext ==
    /\ cur' = GetNext(items)
    /\ prev' = items
    /\ lastRet' = Returned("GetNext")
    /\ UNCHANGED <<items, disk, tmp, added, faults, calls, phase, lock, qpc, qop, fd, loaded>>
    /\ UNCHANGED <<wpc, paused, shouldDeleteCurrent, controlCh, encodeDone, enc, hbCmd,
                   hbPaused, pch, hold, stale, appCh, currentEncode, encodePaused,
                   silent, notified, handled, done, dvars, pvars>>

(* a method that mutates and saves, the save succeeding *)
OpMutate(op, q) ==
    /\ items' = q
    /\ prev' = items
    /\ \E o \in SaveOutcomes(q, disk, tmp) : ~o.err /\ disk' = o.disk /\ tmp' = o.tmp
    /\ lastRet' = Returned(op)
    /\ UNCHANGED <<added, faults, calls, phase, lock, qpc, qop, fd, loaded, wvars>>

OpRetryFailed == OpMutate("RetryFailed", RetryFailed(items))

OpClearCompleted == OpMutate("ClearCompleted", ClearCompleted(items))

(* persistence.Save(items) followed by persistence.Load() *)
OpSaveLoad ==
    /\ prev' = items
    /\ \E o \in SaveOutcomes(items, disk, tmp) : ~o.err /\ disk' = o.disk /\ tmp' = o.tmp
    /\ loaded' = Load(disk')
    /\ lastRet' = Returned("SaveLoad")
    /\ UNCHANGED <<items, added, faults, calls, phase, lock, qpc, qop, fd, wvars>>

InitOps ==
    /\ items \in OpsQueues
    /\ disk = FileAbsent /\ tmp = FileAbsent /\ added = 0 /\ faults = 0 /\ calls = 0
    /\ lock = Unlocked
    /\ qpc = [c \in Callers |-> "idle"]
    /\ qop = [c \in Callers |-> "none"]
    /\ fd = [c \in Callers |-> "none"]
    /\ loaded = [err |-> FALSE, items |-> <<>>]
    /\ lastRet = NoRet /\ prev = <<>>
    /\ phase = "running"
    /\ WorkerInit /\ silent = FALSE /\ DetectorInit(CDS_NO_DISC)
    /\ OthersIdle

NextOps == OpGetNext \/ OpRetryFailed \/ OpClearCompleted \/ OpSaveLoad

SpecOps == InitOps /\ [][NextOps]_vars

----------------------------------------------------------------------------
(* Spec: the running system.  A Queue method runs under Queue.mu from its Lock to
   its deferred Unlock, so here it is one step whose Save succeeds or fails. *)

WorkerPause == "pause"
WorkerResume == "resume"
WorkerStop == "stop"
WorkerDelete == "delete"

NoValue == -1        \* a forwarder that holds no progress value
NoErr == "nil"       \* encodeDone carrying a nil error
NoResult == "none"   \* encodeDone empty

(* the errors whose text holds "killed" or "signal" *)
KilledOrSignal(err) == err = ErrSignal

(* the process of an Encode call is alive: started and not yet exited *)
Alive(i) == enc[i] \in {"running", "stopped"}

QueueUnused == UNCHANGED <<qvars, calls>>

(* a step that is neither handleControl nor the return of encodeItem *)
Unrecorded == done' = NoDone /\ UNCHANGED <<silent, notified, handled, dvars, pvars>>

(* one more call from outside the worker and its goroutines: a key of the
   operator or an Add *)
OtherCall ==
    /\ calls < (IF silent THEN MaxCtlCalls ELSE MaxOtherCalls)
    /\ calls' = calls + 1 /\ UNCHANGED qvars

(* the method stores q in Queue.items and returns Save's result *)
Saved(q, err) ==
    /\ items' = q
    /\ \E o \in SaveOutcomes(q, disk, tmp) :
          o.err = err /\ disk' = o.disk /\ tmp' = o.tmp
    /\ IF err THEN faults < MaxFaults /\ faults' = faults + 1 ELSE UNCHANGED faults

(* the method finds no item with the id and returns nil *)
NotFound == UNCHANGED <<items, disk, tmp, faults>>

(* a method about item id whose caller drops the returned error *)
Call(id, q) == IF HasID(items, id) THEN \E err \in BOOLEAN : Saved(q, err) ELSE NotFound

WorkerTickIgnoresPause ==
    /\ wpc = "idle"
    /\ GetNext(items) # NoItem
    /\ cur' = GetNext(items)
    /\ wpc' = "encodeItem"
    /\ QueueUnused /\ Unrecorded
    /\ UNCHANGED <<items, disk, tmp, added, faults, paused, shouldDeleteCurrent, controlCh,
                   encodeDone, enc, hbCmd, hbPaused, pch, hold, stale, appCh,
                   currentEncode, encodePaused>>

WorkerTickWhileEncoding ==
    /\ wpc \in {"idle", "wait"} /\ ~paused
    /\ GetNext(items) # NoItem
    /\ cur' = GetNext(items)
    /\ wpc' = "encodeItem"
    /\ QueueUnused /\ Unrecorded
    /\ UNCHANGED <<items, disk, tmp, added, faults, paused, shouldDeleteCurrent, controlCh,
                   encodeDone, enc, hbCmd, hbPaused, pch, hold, stale, appCh,
                   currentEncode, encodePaused>>

(* Worker.Run, ticker case: not paused and GetNext returns an item *)
WorkerTick ==
    /\ wpc = "idle" /\ ~paused
    /\ GetNext(items) # NoItem
    /\ cur' = GetNext(items)
    /\ wpc' = "encodeItem"
    /\ QueueUnused /\ Unrecorded
    /\ UNCHANGED <<items, disk, tmp, added, faults, paused, shouldDeleteCurrent, controlCh,
                   encodeDone, enc, hbCmd, hbPaused, pch, hold, stale, appCh,
                   currentEncode, encodePaused>>

(* encodeItem: SetStatus(item.ID, StatusEncoding); on an error print and return *)
WorkerSetEncoding ==
    /\ wpc = "encodeItem"
    /\ IF HasID(items, cur)
       THEN \E err \in BOOLEAN :
               /\ Saved(SetStatus(items, cur, StatusEncoding, Now), err)
               /\ wpc' = IF err THEN "idle" ELSE "send0"
               /\ cur' = IF err THEN NoItem ELSE cur
       ELSE NotFound /\ wpc' = "send0" /\ UNCHANGED cur
    /\ QueueUnused /\ Unrecorded
    /\ UNCHANGED <<added, paused, shouldDeleteCurrent, controlCh, encodeDone, enc, hbCmd,
                   hbPaused, pch, hold, stale, appCh, currentEncode, encodePaused>>

(* what the forwarder of an earlier encode of item i has still to deliver *)
Leftover(i) ==
    {[id |-> i, progress |-> pch[i][k], got |-> FALSE] : k \in 1..Len(pch[i])}
    \cup (IF hold[i] # NoValue
          THEN {[id |-> i, progress |-> hold[i], got |-> TRUE]} ELSE {})

(* encodeItem: the initial ProgressUpdate{item.ID, 0}, a new progressCh with its
   forwarder, a new encodeDone and the goroutine that calls handbrake.Encode *)
WorkerSendInitial ==
    /\ wpc = "send0"
    /\ Len(appCh) < ProgressChCap
    /\ appCh' = Append(appCh, [id |-> cur, progress |-> 0])
    /\ stale' = stale \cup Leftover(cur)
    /\ pch' = [pch EXCEPT ![cur] = <<>>]
    /\ hold' = [hold EXCEPT ![cur] = NoValue]
    /\ encodeDone' = NoResult
    /\ enc' = [enc EXCEPT ![cur] = "called"]
    /\ wpc' = "wait"
    /\ QueueUnused /\ Unrecorded
    /\ UNCHANGED <<items, disk, tmp, added, faults, cur, paused, shouldDeleteCurrent,
                   controlCh, hbCmd, hbPaused, currentEncode, encodePaused>>

(* cmd.Process.Signal / Kill: the process of hb.cmd, if it is alive, gets state s *)
Signalled(s) ==
    [i \in IDs |-> IF i = hbCmd.id /\ Alive(i) THEN s ELSE enc[i]]

(* HandBrake.Pause, Resume and Cancel, under pauseMu *)
HBPause ==
    IF hbCmd.id # NoItem /\ hbCmd.proc /\ ~hbPaused
    THEN hbPaused' = TRUE /\ enc' = Signalled("stopped")
    ELSE UNCHANGED <<hbPaused, enc>>

HBResume ==
    IF hbCmd.id # NoItem /\ hbCmd.proc /\ hbPaused
    THEN hbPaused' = FALSE /\ enc' = Signalled("running")
    ELSE UNCHANGED <<hbPaused, enc>>

HBCancel ==
    /\ enc' = IF hbCmd.id # NoItem /\ hbCmd.proc THEN Signalled("signaled") ELSE enc
    /\ UNCHANGED hbPaused

handleControlLastWins(ctrl) ==
    CASE ctrl = WorkerPause ->
            paused' = TRUE /\ HBPause /\ shouldDeleteCurrent' = FALSE
      [] ctrl = WorkerResume ->
            paused' = FALSE /\ HBResume /\ shouldDeleteCurrent' = FALSE
      [] ctrl = WorkerStop ->
            shouldDeleteCurrent' = FALSE /\ HBCancel /\ UNCHANGED paused
      [] ctrl = WorkerDelete ->
            shouldDeleteCurrent' = TRUE /\ HBCancel /\ UNCHANGED paused

handleControlStopDeletes(ctrl) ==
    CASE ctrl = WorkerPause ->
            paused' = TRUE /\ HBPause /\ UNCHANGED shouldDeleteCurrent
      [] ctrl = WorkerResume ->
            paused' = FALSE /\ HBResume /\ UNCHANGED shouldDeleteCurrent
      [] ctrl \in {WorkerStop, WorkerDelete} ->
            shouldDeleteCurrent' = TRUE /\ HBCancel /\ UNCHANGED paused

(* Worker.handleControl *)
handleControl(ctrl) ==
    CASE ctrl = WorkerPause ->
            paused' = TRUE /\ HBPause /\ UNCHANGED shouldDeleteCurrent
      [] ctrl = WorkerResume ->
            paused' = FALSE /\ HBResume /\ UNCHANGED shouldDeleteCurrent
      [] ctrl = WorkerStop ->
            shouldDeleteCurrent' = FALSE /\ HBCancel /\ UNCHANGED paused
      [] ctrl = WorkerDelete ->
            shouldDeleteCurrent' = TRUE /\ HBCancel /\ UNCHANGED paused

(* `case ctrl := <-w.controlCh` of Run's select and of encodeItem's wait loop *)
WorkerControl ==
    /\ wpc \in {"idle", "wait"}
    /\ controlCh # <<>>
    /\ controlCh' = Tail(controlCh)
    /\ handleControl(Head(controlCh))
    /\ handled' = Append(handled, [ctrl |-> Head(controlCh), id |-> cur])
    /\ done' = NoDone
    /\ QueueUnused /\ UNCHANGED <<silent, notified, dvars, pvars>>
    /\ UNCHANGED <<items, disk, tmp, added, faults, wpc, cur, encodeDone, hbCmd, pch,
                   hold, stale, appCh, currentEncode, encodePaused>>

(* history: the last command handleControl has handled *)
LastCommand(h) ==
    LET c == SelectSeq(h, LAMBDA e : e.ctrl # "removed") IN
    IF c = <<>> THEN "none" ELSE c[Len(c)].ctrl

(* history: a Delete has been handled, and no Stop and no removal after it *)
RECURSIVE DeletePending(_)
DeletePending(h) ==
    IF h = <<>> THEN FALSE
    ELSE LET e == h[Len(h)] IN
         CASE e.ctrl = WorkerDelete -> TRUE
           [] e.ctrl \in {WorkerStop, "removed"} -> FALSE
           [] OTHER -> DeletePending(SubSeq(h, 1, Len(h) - 1))

(* encodeItem, `case err = <-encodeDone` and handleResult: close(progressCh), then
   Remove, Fail or Complete by the error and shouldDeleteCurrent *)
WorkerEncodeDone ==
    /\ wpc = "wait"
    /\ encodeDone # NoResult
    /\ IF encodeDone = NoErr
       THEN Call(cur, Complete(items, cur, Now)) /\ UNCHANGED shouldDeleteCurrent
       ELSE IF KilledOrSignal(encodeDone)
       THEN IF shouldDeleteCurrent
            THEN /\ \E err \in BOOLEAN : Saved(Remove(items, cur), err)
                 /\ shouldDeleteCurrent' = FALSE
            ELSE /\ Call(cur, Fail(items, cur, ErrCancelled, Now))
                 /\ UNCHANGED shouldDeleteCurrent
       ELSE Call(cur, Fail(items, cur, encodeDone, Now)) /\ UNCHANGED shouldDeleteCurrent
    /\ encodeDone' = NoResult
    /\ wpc' = "idle"
    /\ cur' = NoItem
    /\ done' = [id |-> cur, err |-> encodeDone, last |-> LastCommand(handled),
                pending |-> DeletePending(handled)]
    /\ handled' = IF KilledOrSignal(encodeDone) /\ shouldDeleteCurrent
                  THEN Append(handled, [ctrl |-> "removed", id |-> cur])
                  ELSE handled
    /\ QueueUnused /\ UNCHANGED <<silent, notified, dvars, pvars>>
    /\ UNCHANGED <<added, paused, controlCh, enc, hbCmd, hbPaused, pch, hold, stale, appCh,
                   currentEncode, encodePaused>>

(* HandBrake.Encode: hb.cmd = exec.CommandContext(...), under pauseMu *)
EncodeCreateCmd(i) ==
    /\ enc[i] = "called"
    /\ hbCmd' = [id |-> i, proc |-> FALSE]
    /\ enc' = [enc EXCEPT ![i] = "cmd"]
    /\ QueueUnused /\ Unrecorded
    /\ UNCHANGED <<items, disk, tmp, added, faults, wpc, cur, paused, shouldDeleteCurrent,
                   controlCh, encodeDone, hbPaused, pch, hold, stale, appCh,
                   currentEncode, encodePaused>>

(* HandBrake.Encode: pty.Start(hb.cmd) starts the process, or fails and Encode
   returns the error *)
EncodeStart(i, ok) ==
    /\ enc[i] = "cmd"
    /\ IF ok
       THEN /\ hbCmd' = [hbCmd EXCEPT !.proc = (hbCmd.id = i) \/ @]
            /\ enc' = [enc EXCEPT ![i] = "running"]
            /\ UNCHANGED encodeDone
       ELSE /\ enc' = [enc EXCEPT ![i] = "none"]
            /\ encodeDone' = ErrStart
            /\ UNCHANGED hbCmd
    /\ QueueUnused /\ Unrecorded
    /\ UNCHANGED <<items, disk, tmp, added, faults, wpc, cur, paused, shouldDeleteCurrent,
                   controlCh, hbPaused, pch, hold, stale, appCh, currentEncode, encodePaused>>

(* a non-blocking send on a channel of capacity ProgressChCap: dropped when full *)
TrySend(ch, v) == IF Len(ch) < ProgressChCap THEN Append(ch, v) ELSE ch

(* the reader goroutine parses a percentage from the encoder's output *)
EncoderOutput(i, v) ==
    /\ enc[i] = "running" /\ ~silent
    /\ pch' = [pch EXCEPT ![i] = TrySend(@, v)]
    /\ QueueUnused /\ Unrecorded
    /\ UNCHANGED <<items, disk, tmp, added, faults, wpc, cur, paused, shouldDeleteCurrent,
                   controlCh, encodeDone, enc, hbCmd, hbPaused, hold, stale, appCh,
                   currentEncode, encodePaused>>

(* the encoder process ends: by itself with status 0 or 1, or by a signal that does
   not come from HandBrake.Cancel *)
ProcExit(i, how) ==
    /\ IF how = "signaled" THEN Alive(i) ELSE enc[i] = "running"
    /\ enc' = [enc EXCEPT ![i] = how]
    /\ QueueUnused /\ Unrecorded
    /\ UNCHANGED <<items, disk, tmp, added, faults, wpc, cur, paused, shouldDeleteCurrent,
                   controlCh, encodeDone, hbCmd, hbPaused, pch, hold, stale, appCh,
                   currentEncode, encodePaused>>

(* HandBrake.Encode: cmd.Wait() and <-done return; the error, or the 100 and nil *)
EncodeReturn(i) ==
    /\ enc[i] \in {"exited0", "exited1", "signaled"}
    /\ enc' = [enc EXCEPT ![i] = "none"]
    /\ encodeDone' = CASE enc[i] = "exited0" -> NoErr
                       [] enc[i] = "exited1" -> ErrExit
                       [] enc[i] = "signaled" -> ErrSignal
    /\ pch' = IF enc[i] = "exited0" THEN [pch EXCEPT ![i] = TrySend(@, 100)] ELSE pch
    /\ QueueUnused /\ Unrecorded
    /\ UNCHANGED <<items, disk, tmp, added, faults, wpc, cur, paused, shouldDeleteCurrent,
                   controlCh, hbCmd, hbPaused, hold, stale, appCh, currentEncode,
                   encodePaused>>

(* the forwarder of item i: `for progress := range progressCh`, UpdateProgress *)
FwdReceive(i) ==
    /\ pch[i] # <<>> /\ hold[i] = NoValue
    /\ hold' = [hold EXCEPT ![i] = Head(pch[i])]
    /\ pch' = [pch EXCEPT ![i] = Tail(@)]
    /\ Call(i, UpdateProgress(items, i, Head(pch[i])))
    /\ QueueUnused /\ Unrecorded
    /\ UNCHANGED <<added, wpc, cur, paused, shouldDeleteCurrent, controlCh, encodeDone, enc,
                   hbCmd, hbPaused, stale, appCh, currentEncode, encodePaused>>

(* the forwarder of item i: w.progressCh <- ProgressUpdate{...} *)
FwdSend(i) ==
    /\ hold[i] # NoValue
    /\ Len(appCh) < ProgressChCap
    /\ appCh' = Append(appCh, [id |-> i, progress |-> hold[i]])
    /\ hold' = [hold EXCEPT ![i] = NoValue]
    /\ QueueUnused /\ Unrecorded
    /\ UNCHANGED <<items, disk, tmp, added, faults, wpc, cur, paused, shouldDeleteCurrent,
                   controlCh, encodeDone, enc, hbCmd, hbPaused, pch, stale,
                   currentEncode, encodePaused>>

(* the same two steps of the forwarder of an earlier encode of the item, which
   outlives its encodeItem until its closed channel is drained *)
StaleReceive(s) ==
    /\ s \in stale /\ ~s.got
    /\ stale' = (stale \ {s}) \cup {[s EXCEPT !.got = TRUE]}
    /\ Call(s.id, UpdateProgress(items, s.id, s.progress))
    /\ QueueUnused /\ Unrecorded
    /\ UNCHANGED <<added, wpc, cur, paused, shouldDeleteCurrent, controlCh, encodeDone, enc,
                   hbCmd, hbPaused, pch, hold, appCh, currentEncode, encodePaused>>

StaleSend(s) ==
    /\ s \in stale /\ s.got
    /\ Len(appCh) < ProgressChCap
    /\ appCh' = Append(appCh, [id |-> s.id, progress |-> s.progress])
    /\ stale' = stale \ {s}
    /\ QueueUnused /\ Unrecorded
    /\ UNCHANGED <<items, disk, tmp, added, faults, wpc, cur, paused, shouldDeleteCurrent,
                   controlCh, encodeDone, enc, hbCmd, hbPaused, pch, hold,
                   currentEncode, encodePaused>>

(* one more encode-complete event naming item id *)
Notified(id) == [notified EXCEPT ![id] = IF @ < Many THEN @ + 1 ELSE @]

(* App.handleEncodeProgress receives an update and the UI handles its
   EncodeProgressMsg (UpdateProgress, currentEncode = GetCurrent()); for a
   progress of 100 with a current item SendEncodeComplete and an
   EncodeCompleteMsg follow, naming the current item; the message clears
   currentEncode *)
HandleEncodeProgress ==
    /\ appCh # <<>>
    /\ appCh' = Tail(appCh)
    /\ LET u == Head(appCh) IN
       /\ Call(u.id, UpdateProgress(items, u.id, u.progress))
       /\ currentEncode' = IF u.progress >= 100 /\ GetCurrent(items') # NoItem
                           THEN NoItem
                           ELSE GetCurrent(items')
       /\ notified' = IF u.progress >= 100 /\ GetCurrent(items') # NoItem
                      THEN Notified(GetCurrent(items'))
                      ELSE notified
    /\ QueueUnused /\ done' = NoDone /\ UNCHANGED <<silent, handled, dvars, pvars>>
    /\ UNCHANGED <<added, wpc, cur, paused, shouldDeleteCurrent, controlCh, encodeDone, enc,
                   hbCmd, hbPaused, pch, hold, stale, encodePaused>>

(* the key handler's `m.workerControl <- ctrl`, which waits for room *)
SendControl(ctrl) ==
    /\ currentEncode # NoItem
    /\ Len(controlCh) < ControlChCap
    /\ controlCh' = Append(controlCh, ctrl)
    /\ OtherCall /\ Unrecorded
    /\ UNCHANGED <<items, disk, tmp, added, faults, wpc, cur, paused, shouldDeleteCurrent,
                   encodeDone, enc, hbCmd, hbPaused, pch, hold, stale, appCh, currentEncode>>

(* space: toggle pause/resume of the current encode *)
KeySpace ==
    /\ SendControl(IF encodePaused THEN WorkerResume ELSE WorkerPause)
    /\ encodePaused' = ~encodePaused

(* s: stop the current encode, keeping it in the queue as failed *)
KeyS == SendControl(WorkerStop) /\ encodePaused' = FALSE

(* d: stop the current encode and remove it from the queue *)
KeyD == SendControl(WorkerDelete) /\ encodePaused' = FALSE

(* c: m.encodeQueue.ClearCompleted() *)
KeyC ==
    /\ \E err \in BOOLEAN : Saved(ClearCompleted(items), err)
    /\ OtherCall /\ Unrecorded
    /\ UNCHANGED <<added, svars>>

(* t: m.encodeQueue.RetryFailed() *)
KeyT ==
    /\ \E err \in BOOLEAN : Saved(RetryFailed(items), err)
    /\ OtherCall /\ Unrecorded
    /\ UNCHANGED <<added, svars>>

(* the ripper (processDisc) or the scan for missing encodes adds a new item *)
AddItem ==
    /\ added < MaxItems
    /\ added' = added + 1
    /\ \E err \in BOOLEAN : Saved(Add(items, NewItem(added + 1)), err)
    /\ OtherCall /\ Unrecorded
    /\ UNCHANGED svars

Init ==
    QueueInit /\ phase = "running" /\ WorkerInit /\ silent = FALSE /\ DetectorInit(CDS_NO_DISC)
    /\ OthersIdle

NextCtl ==
    \/ WorkerTick
    \/ WorkerSetEncoding
    \/ WorkerSendInitial
    \/ WorkerControl
    \/ WorkerEncodeDone
    \/ \E i \in IDs :
        \/ EncodeCreateCmd(i)
        \/ \E ok \in BOOLEAN : EncodeStart(i, ok)
        \/ \E how \in {"exited0", "exited1", "signaled"} : ProcExit(i, how)
        \/ EncodeReturn(i)
        \/ FwdReceive(i)
        \/ FwdSend(i)
    \/ HandleEncodeProgress
    \/ KeySpace \/ KeyS \/ KeyD \/ KeyC \/ KeyT
    \/ AddItem

Next ==
    \/ NextCtl
    \/ \E i \in IDs, v \in EncoderValues : EncoderOutput(i, v)
    \/ \E s \in stale : StaleReceive(s) \/ StaleSend(s)

Spec == Init /\ [][Next]_vars

(* SpecCtl: the running system with an encoder that prints no percentage lines,
   followed through more operator keys *)
InitCtl ==
    QueueInit /\ phase = "running" /\ WorkerInit /\ silent = TRUE /\ DetectorInit(CDS_NO_DISC)
    /\ OthersIdle

SpecCtl == InitCtl /\ [][NextCtl]_vars

(* SpecLive: SpecCtl with the scheduling the Go runtime and the encoder give: the
   worker goroutine, the Encode goroutine and handleEncodeProgress each take
   their next step when it stays possible (the ticker fires every second, a
   running encoder ends by itself), while keys and Adds are never forced *)
Fairness ==
    /\ WF_vars(WorkerTick)
    /\ WF_vars(WorkerSetEncoding)
    /\ WF_vars(WorkerSendInitial)
    /\ WF_vars(WorkerControl)
    /\ WF_vars(WorkerEncodeDone)
    /\ WF_vars(HandleEncodeProgress)
    /\ \A i \in IDs :
          /\ WF_vars(EncodeCreateCmd(i))
          /\ WF_vars(\E ok \in BOOLEAN : EncodeStart(i, ok))
          /\ WF_vars(\E how \in {"exited0", "exited1"} : ProcExit(i, how))
          /\ WF_vars(EncodeReturn(i))
          /\ WF_vars(FwdReceive(i))
          /\ WF_vars(FwdSend(i))

SpecLive == InitCtl /\ [][NextCtl]_vars /\ Fairness

----------------------------------------------------------------------------
(* Properties of the Queue and its persistence *)

Statuses(q) == [i \in 1..Len(q) |-> q[i].Status]

(* C2: after LoadState has returned no item is Encoding: an item the file held as
   Encoding is Queued with progress 0 and no start time, every other item has the
   status the file held, whatever the earlier run did before it died. *)
C2_LoadStateResetsEncoding ==
    phase = "loaded" =>
        /\ \A i \in 1..Len(items) : items[i].Status # StatusEncoding
        /\ Len(items) = Len(loaded.items)
        /\ \A i \in 1..Len(items) :
              IF loaded.items[i].Status = StatusEncoding
              THEN /\ items[i].Status = StatusQueued
                   /\ items[i].Progress = 0
                   /\ items[i].StartedAt = NoTime
              ELSE items[i].Status = loaded.items[i].Status

C2_Witness ==
    /\ phase = "loaded"
    /\ \E i \in 1..Len(items) :
          /\ loaded.items[i].Status = StatusEncoding
          /\ items[i].Status = StatusQueued

FileMatchesMemory ==
    LET r == Load(disk) IN
    /\ ~r.err
    /\ Len(r.items) = Len(items)
    /\ \A i \in 1..Len(items) : r.items[i] = items[i]

MutatingMethods ==
    {"Add", "UpdateProgress", "SetStatus", "Fail", "Complete", "ClearCompleted",
     "RetryFailed", "Remove"}

(* C3 as stated: whenever one of the mutating methods has returned nil, the file
   decodes to the in-memory sequence. *)
C3_FileMatchesAfterEveryCall ==
    (lastRet.ok /\ lastRet.op \in MutatingMethods) => FileMatchesMemory

(* C3 amended: whenever one of the mutating methods has returned nil after it found
   the item it names (Add, ClearCompleted, RetryFailed and Remove always do), the
   file decodes to the in-memory sequence. *)
C3_FileMatchesAfterSavingCall ==
    (lastRet.ok /\ lastRet.found /\ lastRet.op \in MutatingMethods) => FileMatchesMemory

C3_Witness ==
    /\ lastRet.ok /\ lastRet.found /\ lastRet.op = "Fail"
    /\ Len(items) = 2
    /\ lock.r = {} /\ qpc[Main] = "idle" /\ faults > 0

(* C4: the file at the final path is absent or complete at every instant. *)
C4_FinalFileNeverPartial == disk.kind # "partial"

(* C5: Save followed by Load returns the saved sequence: same length, same order,
   every field equal. *)
C5_SaveLoadRoundTrip ==
    lastRet.op = "SaveLoad" =>
        /\ ~loaded.err
        /\ Len(loaded.items) = Len(prev)
        /\ \A i \in 1..Len(prev) :
              \A f \in DOMAIN prev[i] : loaded.items[i][f] = prev[i][f]

C5_Witness ==
    /\ lastRet.op = "SaveLoad"
    /\ Len(prev) = 2
    /\ prev[1].Error # "" /\ prev[1].CompletedAt # NoTime
    /\ prev[2].Error = "" /\ prev[2].StartedAt = NoTime
    /\ loaded.items = prev

C5_WitnessEmpty == lastRet.op = "SaveLoad" /\ prev = <<>> /\ loaded.items = <<>>

(* C6: GetNext returns the first Queued item in insertion order, nil exactly when
   none is Queued, and leaves the queue as it was. *)
C6_GetNextFirstQueued ==
    lastRet.op = "GetNext" =>
        /\ items = prev
        /\ cur = NoItem <=> ~\E i \in 1..Len(prev) : prev[i].Status = StatusQueued
        /\ cur # NoItem =>
              \E i \in 1..Len(prev) :
                  /\ prev[i].ID = cur
                  /\ prev[i].Status = StatusQueued
                  /\ \A j \in 1..(i - 1) : prev[j].Status # StatusQueued

C6_Witness ==
    /\ lastRet.op = "GetNext"
    /\ Len(prev) = 2
    /\ prev[1].Status = StatusQueued /\ prev[2].Status = StatusQueued
    /\ cur = prev[1].ID

(* C7: RetryFailed makes every Failed or Encoding item Queued with progress 0, no
   error and no times; it leaves every other item, the order and the length alone. *)
C7_RetryFailedResets ==
    lastRet.op = "RetryFailed" =>
        /\ Len(items) = Len(prev)
        /\ \A i \in 1..Len(prev) :
              IF prev[i].Status \in {StatusFailed, StatusEncoding}
              THEN /\ items[i].Status = StatusQueued
                   /\ items[i].Progress = 0
                   /\ items[i].Error = ""
                   /\ items[i].StartedAt = NoTime
                   /\ items[i].CompletedAt = NoTime
                   /\ items[i].ID = prev[i].ID
                   /\ items[i].SourcePath = prev[i].SourcePath
              ELSE items[i] = prev[i]

C7_Witness ==
    /\ lastRet.op = "RetryFailed"
    /\ Len(prev) = 2
    /\ prev[1].Status = StatusEncoding /\ prev[1].Progress = 50
    /\ prev[2].Status = StatusPaused /\ prev[2].Progress = 50
    /\ items[1].Status = StatusQueued /\ items[2] = prev[2]

(* C8: ClearCompleted removes exactly the Complete and the Failed items; the others
   stay, unchanged and in their order. *)
C8_ClearCompletedExact ==
    lastRet.op = "ClearCompleted" =>
        LET kept == {i \in 1..Len(prev) :
                        prev[i].Status \notin {StatusComplete, StatusFailed}} IN
        /\ Len(items) = Cardinality(kept)
        /\ \A i \in kept : items[Cardinality({j \in kept : j <= i})] = prev[i]

C8_Witness ==
    /\ lastRet.op = "ClearCompleted"
    /\ Len(prev) = 2 /\ Len(items) = 1
    /\ prev[1].Status = StatusFailed /\ prev[2].Status = StatusPaused
    /\ items[1] = prev[2]

----------------------------------------------------------------------------
(* Properties of the running system *)

Encoding(q) == {i \in 1..Len(q) : q[i].Status = StatusEncoding}

(* C1: in every reachable state of the running system at most one queue item has
   status Encoding. *)
C1_AtMostOneEncoding == Cardinality(Encoding(items)) <= 1

(* the status changes the specification lists *)
Transitions ==
    {<<StatusQueued, StatusEncoding>>, <<StatusEncoding, StatusComplete>>,
     <<StatusEncoding, StatusFailed>>, <<StatusFailed, StatusQueued>>,
     <<StatusEncoding, StatusQueued>>}

(* the worker is disposing of a cancelled encode as a Delete *)
DeleteDisposition ==
    /\ wpc = "wait" /\ encodeDone # NoResult /\ encodeDone # NoErr
    /\ KilledOrSignal(encodeDone) /\ shouldDeleteCurrent

StatusStep ==
    /\ \A i \in 1..Len(items), j \in 1..Len(items') :
          (items[i].ID = items'[j].ID /\ items[i].Status # items'[j].Status)
              => <<items[i].Status, items'[j].Status>> \in Transitions
    /\ \A i \in 1..Len(items) :
          (items[i].Status = StatusEncoding /\ ~HasID(items', items[i].ID))
              => (DeleteDisposition /\ items[i].ID = cur)

(* C9: in the running system an item's status changes only Queued->Encoding,
   Encoding->Complete, Encoding->Failed, Failed->Queued or Encoding->Queued, and
   no item is removed while Encoding except by the Delete disposition. *)
C9_OnlyListedTransitions == [][StatusStep]_vars

(* C10: at most one encoder process started by the worker is alive at any time,
   and while the worker is outside encodeItem's wait for encodeDone (fetching or
   starting an item) no Encode call is in progress. *)
C10_AtMostOneEncoder ==
    /\ Cardinality({i \in IDs : Alive(i)}) <= 1
    /\ wpc # "wait" => \A i \in IDs : enc[i] = "none"

C10_Witness ==
    \E i \in IDs :
        /\ enc[i] = "running" /\ wpc = "wait" /\ cur = i /\ ~paused
        /\ \E k \in 1..Len(items) : items[k].ID # i /\ items[k].Status = StatusQueued

(* the encodeItem that returned in the last step ended by kill/signal termination *)
Killed == done.id # NoItem /\ KilledOrSignal(done.err)

(* item id is in the queue, Failed, with the error text "cancelled by user" *)
CancelledByUser(id) ==
    /\ HasID(items, id)
    /\ items[FirstIndex(items, id)].Status = StatusFailed
    /\ items[FirstIndex(items, id)].Error = ErrCancelled

(* C11 as stated: when the encoder of the current item ends by kill/signal, the
   item is removed if the last command the worker handled was Delete, and
   otherwise (Stop, Pause, Resume or none) stays in the queue, Failed, with the
   error "cancelled by user". *)
C11_LastCommandDecides ==
    Killed => IF done.last = WorkerDelete
              THEN ~HasID(items, done.id)
              ELSE CancelledByUser(done.id)

(* C11 amended: when the encoder of the current item ends by kill/signal, the
   item is removed if the worker has handled a Delete and, after it, no Stop and
   no removal of an item (Pause and Resume after the Delete change nothing);
   otherwise it stays in the queue, Failed, with the error "cancelled by user". *)
C11_PendingDeleteDecides ==
    Killed => IF done.pending
              THEN ~HasID(items, done.id)
              ELSE CancelledByUser(done.id)

C11_Witness ==
    /\ Killed /\ done.pending
    /\ done.last \in {WorkerPause, WorkerResume}
    /\ ~HasID(items, done.id)

(* C12: when the encode call returns without error the worker marks the item
   Complete; when it returns an error that is not kill/signal termination the
   worker marks it Failed with the captured error text; whatever the encode call
   returned, the item is not Encoding once encodeItem has returned. *)
C12_ResultDecidesStatus ==
    done.id # NoItem =>
        /\ done.err = NoErr =>
              /\ HasID(items, done.id)
              /\ items[FirstIndex(items, done.id)].Status = StatusComplete
        /\ (done.err # NoErr /\ ~KilledOrSignal(done.err)) =>
              /\ HasID(items, done.id)
              /\ items[FirstIndex(items, done.id)].Status = StatusFailed
              /\ items[FirstIndex(items, done.id)].Error = done.err
        /\ HasID(items, done.id) =>
              items[FirstIndex(items, done.id)].Status # StatusEncoding

C12_Witness ==
    /\ done.id # NoItem /\ done.err = ErrExit
    /\ HasID(items, done.id)
    /\ items[FirstIndex(items, done.id)].Status = StatusFailed
    /\ items[FirstIndex(items, done.id)].Error = ErrExit

C12_WitnessComplete ==
    /\ done.id # NoItem /\ done.err = NoErr
    /\ items[FirstIndex(items, done.id)].Status = StatusComplete

(* a Stop has been handled while the worker was driving item id, and no Delete
   has been handled after it *)
StoppedNotDeleted(id) ==
    \E k \in 1..Len(handled) :
        /\ handled[k].ctrl = WorkerStop /\ handled[k].id = id
        /\ \A j \in (k + 1)..Len(handled) : handled[j].ctrl # WorkerDelete

(* RetryFailed has made the i-th item Queued with progress 0, and GetNext returns
   it once the Queued items before it are taken *)
Requeued(q, i) ==
    /\ q[i].Status = StatusQueued /\ q[i].Progress = 0 /\ q[i].Error = ""
    /\ GetNext(SubSeq(q, i, Len(q))) = q[i].ID

(* C13: after a Stop has killed the running encode, no Delete having been handled
   for it, the item is still in the queue with status Failed; a following
   RetryFailed makes it Queued again with progress 0, where GetNext can return
   it. *)
C13_StoppedItemRetried ==
    [][/\ (Killed /\ StoppedNotDeleted(done.id) => CancelledByUser(done.id))'
       /\ KeyT =>
             \A i \in 1..Len(items) :
                (items[i].Status = StatusFailed /\ items[i].Error = ErrCancelled)
                    => Len(items') = Len(items) /\ Requeued(items', i)]_vars

C13_Witness ==
    /\ wpc = "idle" /\ Len(items) = 1
    /\ LastCommand(handled) = WorkerStop /\ StoppedNotDeleted(items[1].ID)
    /\ Requeued(items, 1)

(* C14: a Pause handled at any moment while the worker drives an item leaves the
   encoder suspended until a Resume is handled: in no reachable state is the
   worker's pause flag set while the current item's encoder process runs
   unsuspended. *)
C14_PausedMeansSuspended ==
    ~(paused /\ wpc = "wait" /\ enc[cur] = "running")

(* C15: while the worker's pause flag is set no tick takes an item and no item
   goes from Queued to Encoding. *)
C15_NoStartWhilePaused ==
    [][paused =>
         /\ ~(wpc = "idle" /\ wpc' = "encodeItem")
         /\ \A i \in 1..Len(items), j \in 1..Len(items') :
               (items[i].ID = items'[j].ID /\ items[i].Status = StatusQueued)
                   => items'[j].Status # StatusEncoding]_vars

C15_Witness ==
    /\ paused /\ wpc = "idle"
    /\ GetNext(items) # NoItem

(* some item has ended Failed and item id is Queued *)
QueuedAfterFailure(id) ==
    /\ \E k \in 1..Len(items) : items[k].Status = StatusFailed
    /\ HasID(items, id) /\ items[FirstIndex(items, id)].Status = StatusQueued

(* C16: a failed encode never stops the worker loop: after any item has ended
   Failed, the worker, unless paused, eventually starts the encode of each
   remaining Queued item, taking the Queued items in insertion order. *)
C16_FailedEncodeDoesNotStopWorker ==
    /\ \A id \in IDs : QueuedAfterFailure(id) ~> (enc[id] # "none" \/ paused)
    /\ [][(wpc = "idle" /\ wpc' = "encodeItem") =>
            \E k \in 1..Len(items) :
               /\ items[k].ID = cur' /\ items[k].Status = StatusQueued
               /\ \A j \in 1..(k - 1) : items[j].Status # StatusQueued]_vars

----------------------------------------------------------------------------
(* Properties of the progress channels *)

(* HandBrake.Encode returns for an encoder that exited with status 0 *)
ReturnsClean(i) == enc[i] = "exited0" /\ enc'[i] = "none"

(* C27: when the encoder exits cleanly, a final 100 is on the encode's progress
   channel when Encode returns, however many values are still buffered. *)
C27_Final100Delivered ==
    [][\A i \in IDs :
          ReturnsClean(i) => (pch'[i] # <<>> /\ pch'[i][Len(pch'[i])] = 100)]_vars

(* the same when the channel has room *)
C27_Final100WhenRoom ==
    [][\A i \in IDs :
          (ReturnsClean(i) /\ Len(pch[i]) < ProgressChCap) =>
              (pch'[i] # <<>> /\ pch'[i][Len(pch'[i])] = 100)]_vars

----------------------------------------------------------------------------
(* Properties of the Queue's error reporting *)

(* C17: every mutating Queue operation, LoadState's reset included, returns a
   non-nil error whenever reading or writing the persisted file failed during
   it. *)
C17_PersistenceFailureReturned ==
    (lastRet.op \in MutatingMethods \cup {"LoadState"} /\ lastRet.ioerr) => ~lastRet.ok

(* the same for the operations other than LoadState *)
C17_FailureReturnedByMutators ==
    (lastRet.op \in MutatingMethods /\ lastRet.ioerr) => ~lastRet.ok

----------------------------------------------------------------------------
(***************************************************************************)
(* SpecDisc: the disc Detector, App.handleDisks and the processDisc       *)
(* goroutines, with a drive whose status changes as it likes.              *)
(***************************************************************************)

(* everything outside the disc handling, except what processDisc adds *)
ovars == <<calls, qvars, svars, silent, notified, handled, done, pvars>>
qfile == <<items, disk, tmp, added, faults>>

(* checkDriveStatus: the drive's status, or CDS_NO_INFO and an error when the
   device cannot be opened or the ioctl fails *)
checkDriveStatus ==
    {[status |-> drive, err |-> FALSE], [status |-> CDS_NO_INFO, err |-> TRUE]}

Polled == polls < MaxPolls /\ polls' = polls + 1

(* the result r is the last one read, the one before it is kept *)
Read(r) == reads' = IF reads = <<>> THEN <<r>> ELSE <<reads[Len(reads)], r>>

(* the environment: a disc is put in or taken out, the tray moves, the drive is
   busy *)
DriveChange ==
    /\ \E s \in DriveStatuses \ {drive} : drive' = s
    /\ UNCHANGED <<dpc, lastStatus, diskCh, tasks, polls, emitted, received, sawNotReady, reads>>
    /\ UNCHANGED <<qfile, ovars>>

(* disk.Eject, its error ignored *)
Eject == \E s \in {drive, CDS_TRAY_OPEN} : drive' = s

(* `case <-ticker.C`: read the status; an error polls again, a change from a
   status other than CDS_DISC_OK to CDS_DISC_OK goes to the settle sleep, any
   other status is stored in lastStatus *)
DetectorTick ==
    /\ dpc = "tick" /\ Polled
    /\ \E r \in checkDriveStatus :
          /\ Read(r)
          /\ IF r.err THEN UNCHANGED <<dpc, lastStatus, sawNotReady>>
             ELSE IF lastStatus # CDS_DISC_OK /\ r.status = CDS_DISC_OK
             THEN dpc' = "settle" /\ UNCHANGED <<lastStatus, sawNotReady>>
             ELSE /\ lastStatus' = r.status
                  /\ sawNotReady' = (sawNotReady \/ r.status # CDS_DISC_OK)
                  /\ UNCHANGED dpc
    /\ UNCHANGED <<drive, diskCh, tasks, emitted, received>>
    /\ UNCHANGED <<qfile, ovars>>

(* a detector that sends the event whatever the second read returns *)
DetectorSettledUnchecked ==
    /\ dpc = "settle" /\ Polled
    /\ \E r \in checkDriveStatus :
          /\ Read(r)
          /\ dpc' = "send" /\ emitted' = emitted + 1
          /\ sawNotReady' = FALSE
          /\ UNCHANGED lastStatus
    /\ UNCHANGED <<drive, diskCh, tasks, received>>
    /\ UNCHANGED <<qfile, ovars>>

(* after time.Sleep: read the status again; CDS_DISC_OK without error goes to
   `ch <-`, anything else is stored in lastStatus *)
DetectorSettled ==
    /\ dpc = "settle" /\ Polled
    /\ \E r \in checkDriveStatus :
          /\ Read(r)
          /\ IF ~r.err /\ r.status = CDS_DISC_OK
             THEN /\ dpc' = "send" /\ emitted' = emitted + 1
                  /\ sawNotReady' = FALSE
                  /\ UNCHANGED lastStatus
             ELSE /\ dpc' = "tick" /\ lastStatus' = r.status
                  /\ sawNotReady' = (sawNotReady \/ ~r.err)
                  /\ UNCHANGED emitted
    /\ UNCHANGED <<drive, diskCh, tasks, received>>
    /\ UNCHANGED <<qfile, ovars>>

(* a detector that drops the event when the channel is full *)
DetectorSendOrDrop ==
    /\ dpc = "send"
    /\ diskCh' = IF Len(diskCh) < DiskChCap THEN Append(diskCh, emitted) ELSE diskCh
    /\ lastStatus' = CDS_DISC_OK /\ dpc' = "tick"
    /\ UNCHANGED <<drive, tasks, polls, emitted, received, sawNotReady, reads>>
    /\ UNCHANGED <<qfile, ovars>>

(* `ch <- DetectedDisc{...}` once the channel has room, then lastStatus = status *)
DetectorSend ==
    /\ dpc = "send" /\ Len(diskCh) < DiskChCap
    /\ diskCh' = Append(diskCh, emitted)
    /\ lastStatus' = CDS_DISC_OK /\ dpc' = "tick"
    /\ UNCHANGED <<drive, tasks, polls, emitted, received, sawNotReady, reads>>
    /\ UNCHANGED <<qfile, ovars>>

(* handleDisks, `case disc := <-diskCh`: go a.processDisc(...) *)
HandleDisks ==
    /\ diskCh # <<>>
    /\ diskCh' = Tail(diskCh)
    /\ tasks' = [tasks EXCEPT ![Head(diskCh)] = "scan"]
    /\ received' = received + 1
    /\ UNCHANGED <<drive, dpc, lastStatus, polls, emitted, sawNotReady, reads>>
    /\ UNCHANGED <<qfile, ovars>>

ActivePhases == {"scan", "select", "rip"}

(* processDisc, ScanDisc returns: an error (a cancelled rip has ejected the disc)
   ends the task, titles chosen by SelectTitles go to the rip, none waits for
   the manual selection *)
ProcessDiscScanned(n) ==
    /\ tasks[n] = "scan"
    /\ \/ tasks' = [tasks EXCEPT ![n] = "done"] /\ Eject
       \/ \E to \in {"select", "rip"} : tasks' = [tasks EXCEPT ![n] = to] /\ UNCHANGED drive
    /\ UNCHANGED <<dpc, lastStatus, diskCh, polls, emitted, received, sawNotReady, reads>>
    /\ UNCHANGED <<qfile, ovars>>

(* processDisc, `selectedIDs := <-a.titleSelectionCh`: an empty selection ejects
   and ends the task *)
ProcessDiscSelected(n) ==
    /\ tasks[n] = "select"
    /\ \/ tasks' = [tasks EXCEPT ![n] = "done"] /\ Eject
       \/ tasks' = [tasks EXCEPT ![n] = "rip"] /\ UNCHANGED drive
    /\ UNCHANGED <<dpc, lastStatus, diskCh, polls, emitted, received, sawNotReady, reads>>
    /\ UNCHANGED <<qfile, ovars>>

(* processDisc, the rip of a title: a failed MkdirAll or RipTitle adds nothing, a
   ripped title is added to the queue; then the disc is ejected *)
ProcessDiscRipped(n) ==
    /\ tasks[n] = "rip"
    /\ \/ /\ added < MaxItems
          /\ added' = added + 1
          /\ \E err \in BOOLEAN : Saved(Add(items, NewItem(added + 1)), err)
       \/ UNCHANGED qfile
    /\ tasks' = [tasks EXCEPT ![n] = "done"]
    /\ Eject
    /\ UNCHANGED <<dpc, lastStatus, diskCh, polls, emitted, received, sawNotReady, reads>>
    /\ UNCHANGED ovars

InitDisc ==
    /\ QueueInit /\ phase = "running" /\ WorkerInit /\ silent = FALSE
    /\ \E d \in DriveStatuses : DetectorInit(d)
    /\ OthersIdle

NextDisc ==
    \/ DriveChange
    \/ DetectorTick
    \/ DetectorSettled
    \/ DetectorSend
    \/ HandleDisks
    \/ \E n \in Events : ProcessDiscScanned(n)
    \/ \E n \in Events : ProcessDiscSelected(n)
    \/ \E n \in Events : ProcessDiscRipped(n)

SpecDisc == InitDisc /\ [][NextDisc]_vars

(* the goroutines of the detector and of handleDisks are scheduled *)
FairnessDisc == WF_vars(DetectorSend) /\ WF_vars(HandleDisks)

SpecDiscLive == InitDisc /\ [][NextDisc]_vars /\ FairnessDisc

----------------------------------------------------------------------------
(* Properties of the disc handling *)

(* the detector reaches `ch <-` in this step *)
Decides == emitted' = emitted + 1

(* C18: the detector emits an event only for a change from a not-ready status
   it has read to ready: none for a disc that was in the drive when it started,
   and none while the drive stays ready after an event. *)
C18_EventOnlyForObservedInsertion == [][Decides => sawNotReady]_vars

(* every event but the first follows a not-ready status read after the event
   before it *)
C18_LaterEventsFollowNotReady == [][(Decides /\ emitted > 0) => sawNotReady]_vars

(* events the detector holds at `ch <-` *)
InHand == IF dpc = "send" THEN 1 ELSE 0

(* C19: every event the detector decides to emit reaches handleDisks: at most
   one waits in the channel, the detector keeps the next one until there is
   room, none is lost, and each is received in the end. *)
C19_EveryEventDelivered ==
    /\ [](Len(diskCh) <= DiskChCap /\ emitted = received + Len(diskCh) + InHand)
    /\ \A n \in Events : (emitted >= n) ~> (received >= n)

(* the detector waits at `ch <-` with the next event, behind an event that
   handleDisks has not taken yet *)
C19_Witness == dpc = "send" /\ Len(diskCh) = DiskChCap

ActiveTasks == {n \in Events : tasks[n] \in ActivePhases}

(* C20: at most one processDisc is active at any time. *)
C20_AtMostOneDiscTask == Cardinality(ActiveTasks) <= 1

----------------------------------------------------------------------------
(***************************************************************************)
(* SpecParser: single calls of SelectTitles and CalculatePercentage        *)
(* (internal/makemkv/parser.go) on arbitrary arguments.                    *)
(***************************************************************************)

(* everything that existed before the parser, and the state of the other parts *)
bvars == <<items, disk, tmp, added, faults, calls, qvars, svars, silent, notified, handled, done,
          dvars>>
exceptParser == <<bvars, rvars, xvars>>

Durations == 0..MaxDuration
Thresholds == (0 - 1)..(MaxDuration + 1)       \* minutes of the configuration, not validated

(* a scan's titles: distinct ids, here the position in the list *)
TitleLists ==
    UNION {[1..n -> Durations] : n \in 0..MaxTitles}

Titles(ds) == [i \in 1..Len(ds) |-> [ID |-> i, Duration |-> ds[i]]]

(* SelectTitles' first loop: the largest duration, 0 at least *)
RECURSIVE MaxDurationFrom(_, _, _)
MaxDurationFrom(titles, k, maxDuration) ==
    IF k > Len(titles) THEN maxDuration
    ELSE MaxDurationFrom(titles, k + 1,
             IF titles[k].Duration > maxDuration THEN titles[k].Duration ELSE maxDuration)

(* a findLongestTitle that keeps the last of the longest titles *)
RECURSIVE LongestFromLast(_, _, _)
LongestFromLast(titles, k, longest) ==
    IF k > Len(titles) THEN longest
    ELSE LongestFromLast(titles, k + 1,
             IF titles[k].Duration >= longest.Duration THEN titles[k] ELSE longest)

(* findLongestTitle's loop over titles[1:] *)
RECURSIVE LongestFrom(_, _, _)
LongestFrom(titles, k, longest) ==
    IF k > Len(titles) THEN longest
    ELSE LongestFrom(titles, k + 1,
             IF titles[k].Duration > longest.Duration THEN titles[k] ELSE longest)

findLongestTitle(titles) ==
    IF titles = <<>> THEN [ID |-> 0, Duration |-> 0]
    ELSE LongestFrom(titles, 2, titles[1])

(* a SelectTitles whose episode mode leaves out the titles of exactly the
   threshold's duration *)
SelectTitlesAbove(titles, movieThreshold, episodeThreshold) ==
    IF titles = <<>> THEN <<>>
    ELSE IF MaxDurationFrom(titles, 1, 0) >= movieThreshold
    THEN <<findLongestTitle(titles)>>
    ELSE SelectSeq(titles, LAMBDA title : title.Duration > episodeThreshold)

SelectTitles(titles, movieThreshold, episodeThreshold) ==
    IF titles = <<>> THEN <<>>
    ELSE IF MaxDurationFrom(titles, 1, 0) >= movieThreshold
    THEN <<findLongestTitle(titles)>>
    ELSE SelectSeq(titles, LAMBDA title : title.Duration >= episodeThreshold)

(* a float64 value as a fraction in lowest terms with a positive denominator *)
RECURSIVE GCD(_, _)
GCD(a, b) == IF b = 0 THEN a ELSE GCD(b, a % b)

Abs(n) == IF n < 0 THEN 0 - n ELSE n

Fraction(n, d) ==
    LET g == GCD(Abs(n), Abs(d))
        sg == IF d < 0 THEN 0 - 1 ELSE 1
    IN [num |-> sg * (n \div g), den |-> sg * (d \div g)]

(* a CalculatePercentage that divides by total *)
CalculatePercentageOfTotal(current, total, max) ==
    IF total = 0 THEN Fraction(0, 1) ELSE Fraction(current * 100, total)

CalculatePercentage(current, total, max) ==
    IF max = 0 THEN Fraction(0, 1) ELSE Fraction(current * 100, max)

ProgressNumbers == 0..MaxProgress

SelectArgs ==
    {[fn |-> "SelectTitles", titles |-> Titles(ds), movieThreshold |-> m,
      episodeThreshold |-> e] : ds \in TitleLists, m \in Thresholds, e \in Thresholds}

PercentageArgs ==
    {[fn |-> "CalculatePercentage", current |-> c, total |-> t, max |-> m] :
        c \in ProgressNumbers, t \in ProgressNumbers, m \in ProgressNumbers}

CallSelectTitles ==
    /\ args.fn = "SelectTitles" /\ ~result.done
    /\ result' = [done |-> TRUE,
                  val |-> SelectTitles(args.titles, args.movieThreshold,
                                       args.episodeThreshold)]
    /\ UNCHANGED <<args, exceptParser>>

CallCalculatePercentage ==
    /\ args.fn = "CalculatePercentage" /\ ~result.done
    /\ result' = [done |-> TRUE,
                  val |-> CalculatePercentage(args.current, args.total, args.max)]
    /\ UNCHANGED <<args, exceptParser>>

InitParser ==
    /\ QueueInit /\ phase = "running" /\ WorkerInit /\ silent = FALSE
    /\ DetectorInit(CDS_NO_DISC)
    /\ args \in SelectArgs \cup PercentageArgs /\ result = NotReturned
    /\ RipIdle /\ LockIdle /\ ScanIdle /\ TitleIdle

NextParser == CallSelectTitles \/ CallCalculatePercentage

SpecParser == InitParser /\ [][NextParser]_vars

----------------------------------------------------------------------------
(* SpecInfo: ParseInfo called twice on the same scan output.  The output is
   taken as the titleMap that parseTitleInfo builds from its TINFO lines: the
   title ids it names and the duration of each. *)

TitleMaps == UNION {[S -> Durations] : S \in SUBSET (1..MaxTitles)}

(* the orders in which `range` can visit the keys of a Go map: any *)
RangeOrders(S) ==
    {o \in [1..Cardinality(S) -> S] : \A i, j \in 1..Cardinality(S) : o[i] = o[j] => i = j}

(* ParseInfo's last loop: the titles of a duration above 0, appended in the
   order of the map iteration; the set of the possible return values *)
ParseInfo(titleMap) ==
    {SelectSeq([i \in 1..Len(o) |-> [ID |-> o[i], Duration |-> titleMap[o[i]]]],
               LAMBDA title : title.Duration > 0) : o \in RangeOrders(DOMAIN titleMap)}

InfoArgs == {[fn |-> "ParseInfo", titleMap |-> tm, runs |-> 0, first |-> <<>>] : tm \in TitleMaps}

(* one more run on the same output; the result of the run before is kept *)
CallParseInfo ==
    /\ args.fn = "ParseInfo" /\ args.runs < MaxRuns
    /\ \E val \in ParseInfo(args.titleMap) : result' = [done |-> TRUE, val |-> val]
    /\ args' = [args EXCEPT !.runs = @ + 1,
                            !.first = IF result.done THEN result.val ELSE @]
    /\ UNCHANGED exceptParser

InitInfo ==
    /\ QueueInit /\ phase = "running" /\ WorkerInit /\ silent = FALSE
    /\ DetectorInit(CDS_NO_DISC)
    /\ args \in InfoArgs /\ result = NotReturned
    /\ RipIdle /\ LockIdle /\ ScanIdle /\ TitleIdle

NextInfo == CallParseInfo

SpecInfo == InitInfo /\ [][NextInfo]_vars

----------------------------------------------------------------------------
(***************************************************************************)
(* SpecRip: one run of App.processDisc, from the scan to the eject, with   *)
(* the operator's cancel and title-selection keys and the outcomes of the  *)
(* MakeMKV processes.                                                      *)
(***************************************************************************)

(* thresholds.movie_min_minutes and episode_min_minutes, in the model's units *)
MovieMin == MaxDuration
EpisodeMin == MaxDuration - 1

TitleSelectionChCap == 1     \* make(chan []int, 1)
CancelRipChCap == 1          \* make(chan struct{}, 1)

(* what ParseInfo can return: titles of a duration above 0, as many as the
   queue of the model has room for *)
ScanResults ==
    {Titles(ds) : ds \in UNION {[1..n -> 1..MaxDuration] : n \in 0..MaxItems}}

TitleIDs(titles) == [i \in 1..Len(titles) |-> titles[i].ID]

(* handleKeyPress, "enter": the ids of the titles marked Selected, in the order
   of availableTitles *)
Marked(titles, S) == TitleIDs(SelectSeq(titles, LAMBDA t : t.ID \in S))

(* a processDisc that rips every scanned title once a selection has come *)
BuildSelectedAll(ids, titles) == titles

(* processDisc: selectedTitles built from the ids: for each id in turn, the
   first scanned title of that id *)
RECURSIVE BuildSelected(_, _)
BuildSelected(ids, titles) ==
    IF ids = <<>> THEN <<>>
    ELSE LET m == SelectSeq(titles, LAMBDA t : t.ID = Head(ids))
         IN (IF m = <<>> THEN <<>> ELSE <<m[1]>>) \o BuildSelected(Tail(ids), titles)

Event(e, id, ok) == [e |-> e, id |-> id, ok |-> ok, ids |-> <<>>]
Logged(e) == rlog' = Append(rlog, e)
Logged2(e, f) == rlog' = Append(Append(rlog, e), f)

(* program.Send(ui.ErrorMsg{...}); a.notifier.SendError unless manuallyCancelled *)
ReportError(kind, id) ==
    /\ ripState' = "Error"
    /\ rlog' = rlog \o <<Event(kind, id, FALSE)>> \o
                 (IF manuallyCancelled THEN <<>> ELSE <<Event("notify", id, FALSE)>>)

(* program.Send(ui.ErrorMsg{...}) and disk.Eject *)
ErrorAndEject(kind) ==
    /\ ripState' = "Error"
    /\ Logged2(Event(kind, 0, FALSE), Event("eject", 0, TRUE))

RipQueueUnused == UNCHANGED <<bvars, tvars, xvars>>

(* handleDisks: go a.processDisc; the monitor goroutine starts, DiskInsertedMsg
   is sent and ScanDisc is called *)
ProcessDiscStart ==
    /\ rpc = "none"
    /\ rpc' = "scan" /\ mon' = "wait"
    /\ ripState' = "Scanning"
    /\ Logged(Event("start", 0, TRUE))
    /\ UNCHANGED <<scanned, selectedTitles, ripIdx, ripCancelled, manuallyCancelled,
                   cancelRipCh, titleSelectionCh>>
    /\ RipQueueUnused

(* the "x"/"e" key and the CancelAndEjectMsg it produces *)
KeyCancel ==
    /\ ripState \in {"Scanning", "Ripping"}
    /\ cancelRipCh' = IF cancelRipCh < CancelRipChCap THEN cancelRipCh + 1 ELSE cancelRipCh
    /\ ripState' = "Waiting"
    /\ Logged(Event("x", 0, TRUE))
    /\ UNCHANGED <<rpc, mon, scanned, selectedTitles, ripIdx, ripCancelled,
                   manuallyCancelled, titleSelectionCh>>
    /\ RipQueueUnused

(* monitor, `case <-a.cancelRipCh`: manuallyCancelled = true, cancelRip() *)
MonitorCancel ==
    /\ mon = "wait" /\ cancelRipCh > 0
    /\ cancelRipCh' = cancelRipCh - 1
    /\ manuallyCancelled' = TRUE /\ ripCancelled' = TRUE
    /\ mon' = "eject"
    /\ Logged(Event("cancel", 0, TRUE))
    /\ UNCHANGED <<rpc, scanned, selectedTitles, ripIdx, titleSelectionCh, ripState>>
    /\ RipQueueUnused

(* monitor: disk.Eject(disc.Device) after cancelRip() *)
MonitorEject ==
    /\ mon = "eject"
    /\ mon' = "done"
    /\ Logged(Event("eject", 0, TRUE))
    /\ UNCHANGED <<rpc, scanned, selectedTitles, ripIdx, ripCancelled, manuallyCancelled,
                   cancelRipCh, titleSelectionCh, ripState>>
    /\ RipQueueUnused

(* monitor, `case <-ripCtx.Done()` *)
MonitorEnd ==
    /\ mon = "wait" /\ ripCancelled
    /\ mon' = "done"
    /\ UNCHANGED <<rpc, scanned, selectedTitles, ripIdx, ripCancelled, manuallyCancelled,
                   cancelRipCh, titleSelectionCh, ripState, rlog>>
    /\ RipQueueUnused

(* processDisc returns: the deferred cancelRip() *)
Return == rpc' = "done" /\ ripCancelled' = TRUE

(* ScanDisc returns an error: silently after a cancellation, reported otherwise *)
ScanFails ==
    /\ rpc = "scan"
    /\ Return
    /\ IF ripCancelled
       THEN UNCHANGED <<ripState, rlog>>
       ELSE ReportError("scan-error", 0)
    /\ UNCHANGED <<mon, scanned, selectedTitles, ripIdx, manuallyCancelled, cancelRipCh,
                   titleSelectionCh>>
    /\ RipQueueUnused

(* ScanDisc returns the titles: ScanCompleteMsg, SelectTitles, and
   ShowTitleSelectionMsg when it selects nothing *)
ScanSucceeds(titles) ==
    /\ rpc = "scan"
    /\ scanned' = titles
    /\ selectedTitles' = SelectTitles(titles, MovieMin, EpisodeMin)
    /\ IF selectedTitles' = <<>>
       THEN rpc' = "select" /\ ripState' = "SelectingTitles"
       ELSE rpc' = "mkdir" /\ ripState' = "Ripping"
    /\ Logged(Event("scanned", Len(selectedTitles'), TRUE))
    /\ UNCHANGED <<mon, ripIdx, ripCancelled, manuallyCancelled, cancelRipCh,
                   titleSelectionCh>>
    /\ RipQueueUnused

(* handleKeyPress in title selection mode, "enter" with at least one title marked *)
KeyEnter(S) ==
    /\ ripState = "SelectingTitles"
    /\ Marked(scanned, S) # <<>>
    /\ Len(titleSelectionCh) < TitleSelectionChCap
    /\ titleSelectionCh' = Append(titleSelectionCh, Marked(scanned, S))
    /\ ripState' = "Ripping"
    /\ Logged(Event("enter", 0, TRUE))
    /\ UNCHANGED <<rpc, mon, scanned, selectedTitles, ripIdx, ripCancelled,
                   manuallyCancelled, cancelRipCh>>
    /\ RipQueueUnused

(* processDisc, `selectedIDs := <-a.titleSelectionCh` *)
SelectionReceived ==
    /\ rpc = "select" /\ titleSelectionCh # <<>>
    /\ titleSelectionCh' = Tail(titleSelectionCh)
    /\ IF Head(titleSelectionCh) = <<>>
       THEN /\ Return /\ ErrorAndEject("empty-error")
            /\ UNCHANGED selectedTitles
       ELSE /\ selectedTitles' = BuildSelected(Head(titleSelectionCh), scanned)
            /\ rpc' = "mkdir"
            /\ Logged([Event("received", 0, TRUE) EXCEPT !.ids = Head(titleSelectionCh)])
            /\ UNCHANGED <<ripCancelled, ripState>>
    /\ UNCHANGED <<mon, scanned, ripIdx, manuallyCancelled, cancelRipCh>>
    /\ RipQueueUnused

(* the two os.MkdirAll: a failure is reported, the disc ejected *)
MakeDirs(ok) ==
    /\ rpc = "mkdir"
    /\ IF ok
       THEN rpc' = "loop" /\ ripIdx' = 1 /\ UNCHANGED <<ripCancelled, ripState, rlog>>
       ELSE Return /\ ErrorAndEject("dir-error") /\ UNCHANGED ripIdx
    /\ UNCHANGED <<mon, scanned, selectedTitles, manuallyCancelled, cancelRipCh,
                   titleSelectionCh>>
    /\ RipQueueUnused

(* the head of the rip loop: RipTitle is called for the next title; under a
   cancelled context the process is not started *)
RipStart ==
    /\ rpc = "loop" /\ ripIdx <= Len(selectedTitles)
    /\ rpc' = IF ripCancelled THEN "ripdead" ELSE "rip"
    /\ Logged(Event("rip", selectedTitles[ripIdx].ID, TRUE))
    /\ UNCHANGED <<mon, scanned, selectedTitles, ripIdx, ripCancelled, manuallyCancelled,
                   cancelRipCh, titleSelectionCh, ripState>>
    /\ RipQueueUnused

(* RipTitle returns: nil after exit status 0, an error otherwise (the process
   failed, was killed by the cancellation, or was never started) *)
RipReturns(ok) ==
    /\ rpc \in {"rip", "ripdead"}
    /\ ok => rpc = "rip"
    /\ IF ok
       THEN /\ rpc' = "find"
            /\ Logged(Event("ripped", selectedTitles[ripIdx].ID, TRUE))
            /\ UNCHANGED <<ripIdx, ripState>>
       ELSE /\ rpc' = "loop" /\ ripIdx' = ripIdx + 1
            /\ ripState' = "Error"
            /\ rlog' = rlog \o <<Event("ripped", selectedTitles[ripIdx].ID, FALSE),
                                  Event("rip-error", selectedTitles[ripIdx].ID, FALSE)>> \o
                         (IF manuallyCancelled THEN <<>>
                          ELSE <<Event("notify", selectedTitles[ripIdx].ID, FALSE)>>)
    /\ UNCHANGED <<mon, scanned, selectedTitles, ripCancelled, manuallyCancelled,
                   cancelRipCh, titleSelectionCh>>
    /\ RipQueueUnused

(* findNewestMKVFile and, when it finds the file, a.queue.Add, whose error is
   dropped *)
FindAndAdd(found) ==
    /\ rpc = "find"
    /\ rpc' = "loop" /\ ripIdx' = ripIdx + 1
    /\ IF found
       THEN /\ added < MaxItems
            /\ added' = added + 1
            /\ \E err \in BOOLEAN :
                  Saved(Add(items, [NewItem(added + 1) EXCEPT
                                       !.TitleName = selectedTitles[ripIdx].ID]), err)
            /\ Logged(Event("added", selectedTitles[ripIdx].ID, TRUE))
            /\ UNCHANGED ripState
       ELSE /\ ripState' = "Error"
            /\ Logged(Event("file-error", selectedTitles[ripIdx].ID, FALSE))
            /\ UNCHANGED <<items, disk, tmp, added, faults>>
    /\ UNCHANGED <<mon, scanned, selectedTitles, ripCancelled, manuallyCancelled,
                   cancelRipCh, titleSelectionCh>>
    /\ UNCHANGED <<calls, qvars, svars, silent, notified, handled, done, dvars, tvars, xvars>>

(* after the loop: RipCompleteMsg unless cancelled, then disk.Eject *)
Finish ==
    /\ rpc = "loop" /\ ripIdx > Len(selectedTitles)
    /\ Return
    /\ ripState' = IF ~manuallyCancelled /\ ~ripCancelled THEN "Complete" ELSE ripState
    /\ Logged(Event("eject", 0, TRUE))
    /\ UNCHANGED <<mon, scanned, selectedTitles, ripIdx, manuallyCancelled, cancelRipCh,
                   titleSelectionCh>>
    /\ RipQueueUnused

InitRip ==
    /\ QueueInit /\ phase = "running" /\ WorkerInit /\ silent = FALSE
    /\ DetectorInit(CDS_NO_DISC)
    /\ ParserIdle /\ RipIdle /\ LockIdle /\ ScanIdle /\ TitleIdle

NextRip ==
    \/ ProcessDiscStart
    \/ KeyCancel
    \/ MonitorCancel
    \/ MonitorEject
    \/ MonitorEnd
    \/ ScanFails
    \/ \E titles \in ScanResults : ScanSucceeds(titles)
    \/ \E S \in SUBSET (1..MaxItems) : KeyEnter(S)
    \/ SelectionReceived
    \/ \E ok \in BOOLEAN : MakeDirs(ok)
    \/ RipStart
    \/ \E ok \in BOOLEAN : RipReturns(ok)
    \/ \E found \in BOOLEAN : FindAndAdd(found)
    \/ Finish

SpecRip == InitRip /\ [][NextRip]_vars

----------------------------------------------------------------------------
(* SpecTasks: SpecRip followed through the next disc.  App.cancelRipCh and
   App.titleSelectionCh are made once, in New, and every processDisc task uses
   them; all else of a task is local to it. *)

(* the number of processDisc tasks started up to position p of the log *)
TaskOf(p) == Cardinality({q \in 1..p : rlog[q].e = "start"})

(* handleDisks: go a.processDisc for the next disc, after the task before and
   its monitor have ended *)
ProcessDiscNext ==
    /\ rpc = "done" /\ mon = "done"
    /\ TaskOf(Len(rlog)) < MaxTasks
    /\ rpc' = "scan" /\ mon' = "wait"
    /\ ripState' = "Scanning"
    /\ ripCancelled' = FALSE /\ manuallyCancelled' = FALSE
    /\ scanned' = <<>> /\ selectedTitles' = <<>> /\ ripIdx' = 0
    /\ Logged(Event("start", 0, TRUE))
    /\ UNCHANGED <<cancelRipCh, titleSelectionCh>>
    /\ RipQueueUnused

(* discs with one title, which the automatic selection takes *)
OneTitleScans ==
    {titles \in ScanResults :
        Len(titles) = 1 /\ SelectTitles(titles, MovieMin, EpisodeMin) # <<>>}

NextTasks ==
    \/ ProcessDiscStart
    \/ ProcessDiscNext
    \/ KeyCancel
    \/ MonitorCancel
    \/ MonitorEject
    \/ MonitorEnd
    \/ ScanFails
    \/ \E titles \in OneTitleScans : ScanSucceeds(titles)
    \/ \E ok \in BOOLEAN : MakeDirs(ok)
    \/ RipStart
    \/ \E ok \in BOOLEAN : RipReturns(ok)
    \/ \E found \in BOOLEAN : FindAndAdd(found)
    \/ Finish

SpecTasks == InitRip /\ [][NextTasks]_vars

----------------------------------------------------------------------------
(* SpecLock: instances of the program started at about the same time, and the
   lock file of App.Run, app.go *)

exceptLock == <<bvars, tvars, rvars, mvars, yvars>>

(* the lock file a start can find: none, the one a process that has ended left
   behind with its pid, or one left behind before the pid was written *)
LockFilesAtStart ==
    {NoLockFile,
     [exists |-> TRUE, creator |-> StalePid, content |-> StalePid],
     [exists |-> TRUE, creator |-> StalePid, content |-> NoPid]}

(* the instance's process exists: App.Run has not returned *)
ProcessExists(i) == lpc[i] \notin {"failed", "exited"}

(* isProcessRunning: the content of the file parsed as a pid and signal 0 sent
   to that process; false when the file cannot be read or holds no number *)
isProcessRunning ==
    /\ lockFile.exists
    /\ lockFile.content \in Instances
    /\ ProcessExists(lockFile.content)

(* os.OpenFile(lockPath, O_CREATE|O_EXCL|O_WRONLY): the file as created *)
Created(i) == [exists |-> TRUE, creator |-> i, content |-> NoPid]

(* os.Remove(lockPath): whatever file is at the path is removed *)
RemoveLockFile(i, at) ==
    /\ lockFile' = NoLockFile
    /\ removals' = IF lockFile.exists
                   THEN removals \cup
                        {[by |-> i, of |-> lockFile.creator, at |-> at,
                          live |-> /\ lockFile.creator \in Instances
                                   /\ lockFile.creator # i
                                   /\ ProcessExists(lockFile.creator)]}
                   ELSE removals

(* the first OpenFile: the file is created, or it exists already *)
LockCreate(i) ==
    /\ lpc[i] = "start"
    /\ IF lockFile.exists
       THEN lpc' = [lpc EXCEPT ![i] = "check"] /\ UNCHANGED lockFile
       ELSE lpc' = [lpc EXCEPT ![i] = "write"] /\ lockFile' = Created(i)
    /\ UNCHANGED <<removals, exceptLock>>

(* the first OpenFile fails with another error: Run returns it *)
LockCreateFails(i) ==
    /\ lpc[i] = "start"
    /\ lpc' = [lpc EXCEPT ![i] = "failed"]
    /\ UNCHANGED <<lockFile, removals, exceptLock>>

(* the file exists: Run returns an error when its process runs *)
LockCheck(i) ==
    /\ lpc[i] = "check"
    /\ lpc' = [lpc EXCEPT ![i] = IF isProcessRunning THEN "failed" ELSE "remove"]
    /\ UNCHANGED <<lockFile, removals, exceptLock>>

(* the stale lock file is removed *)
LockRemoveStale(i) ==
    /\ lpc[i] = "remove"
    /\ RemoveLockFile(i, "stale")
    /\ lpc' = [lpc EXCEPT ![i] = "retry"]
    /\ UNCHANGED exceptLock

(* the second OpenFile; Run returns its error *)
LockRetry(i) ==
    /\ lpc[i] = "retry"
    /\ IF lockFile.exists
       THEN lpc' = [lpc EXCEPT ![i] = "failed"] /\ UNCHANGED lockFile
       ELSE lpc' = [lpc EXCEPT ![i] = "write"] /\ lockFile' = Created(i)
    /\ UNCHANGED <<removals, exceptLock>>

(* fmt.Fprintf(lockFile, pid): written into the file this instance created,
   which is the file at the path only if nobody has removed it *)
LockWritePid(i) ==
    /\ lpc[i] = "write"
    /\ lockFile' = IF lockFile.exists /\ lockFile.creator = i
                   THEN [lockFile EXCEPT !.content = i]
                   ELSE lockFile
    /\ lpc' = [lpc EXCEPT ![i] = "running"]
    /\ UNCHANGED <<removals, exceptLock>>

(* Run returns: the deferred lockFile.Close and os.Remove(lockPath) *)
LockRelease(i) ==
    /\ lpc[i] = "running"
    /\ RemoveLockFile(i, "exit")
    /\ lpc' = [lpc EXCEPT ![i] = "exited"]
    /\ UNCHANGED exceptLock

InitLock ==
    /\ QueueInit /\ phase = "running" /\ WorkerInit /\ silent = FALSE
    /\ DetectorInit(CDS_NO_DISC)
    /\ ParserIdle /\ RipIdle /\ ScanIdle /\ TitleIdle
    /\ lockFile \in LockFilesAtStart
    /\ lpc = [i \in Instances |-> "start"] /\ removals = {}

NextLock ==
    \E i \in Instances :
        \/ LockCreate(i)
        \/ LockCreateFails(i)
        \/ LockCheck(i)
        \/ LockRemoveStale(i)
        \/ LockRetry(i)
        \/ LockWritePid(i)
        \/ LockRelease(i)

SpecLock == InitLock /\ [][NextLock]_vars

----------------------------------------------------------------------------
(* SpecScan: the scans for raw files without an encode that the operator asks
   for, next to the Adds of a disc being ripped, app.go *)

exceptScan == <<calls, qvars, svars, silent, notified, handled, done, dvars, tvars, rvars, lvars,
                yvars>>

ScanRequestChCap == 1       \* make(chan struct{}, 1)

(* the .mkv files of the raw folders, by source path, in the order of ReadDir *)
RawFiles == 1..MaxFiles

HasSourcePath(q, sourcePath) == \E n \in 1..Len(q) : q[n].SourcePath = sourcePath

(* the QueueItem made for a raw file *)
ItemFor(sourcePath) ==
    [NewItem(added + 1) EXCEPT !.SourcePath = sourcePath, !.DestPath = sourcePath]

(* the "a" key: ScanForMissingMsg, a request sent unless one is waiting *)
KeyScan ==
    /\ scanRequestCh' = IF scanRequestCh < ScanRequestChCap
                        THEN scanRequestCh + 1 ELSE scanRequestCh
    /\ UNCHANGED <<items, disk, tmp, added, faults, spc, scanAt, encoded, scanLog,
                   exceptScan>>

(* handleScanRequests: go a.scanForMissingEncodes, which reads the directories *)
HandleScanRequest(s) ==
    /\ scanRequestCh > 0 /\ spc[s] = "none"
    /\ scanRequestCh' = scanRequestCh - 1
    /\ spc' = [spc EXCEPT ![s] = "loop"]
    /\ scanAt' = [scanAt EXCEPT ![s] = 1]
    /\ UNCHANGED <<items, disk, tmp, added, faults, encoded, scanLog, exceptScan>>

(* one raw file: skipped when its encoded file exists or HasSourcePath is true *)
ScanCheck(s) ==
    /\ spc[s] = "loop" /\ scanAt[s] \in RawFiles
    /\ IF scanAt[s] \in encoded \/ HasSourcePath(items, scanAt[s])
       THEN scanAt' = [scanAt EXCEPT ![s] = @ + 1] /\ UNCHANGED spc
       ELSE spc' = [spc EXCEPT ![s] = "add"] /\ UNCHANGED scanAt
    /\ UNCHANGED <<items, disk, tmp, added, faults, scanRequestCh, encoded, scanLog,
                   exceptScan>>

(* a.queue.Add(item) for the file; the loop goes on whatever Add returns *)
ScanAdd(s, err) ==
    /\ spc[s] = "add"
    /\ added < MaxItems
    /\ added' = added + 1
    /\ Saved(Add(items, ItemFor(scanAt[s])), err)
    /\ scanLog' = Append(scanLog, [by |-> s, path |-> scanAt[s],
                                   dup |-> HasSourcePath(items, scanAt[s])])
    /\ spc' = [spc EXCEPT ![s] = "loop"]
    /\ scanAt' = [scanAt EXCEPT ![s] = @ + 1]
    /\ UNCHANGED <<scanRequestCh, encoded, exceptScan>>

(* the loops are through: the scan returns *)
ScanEnd(s) ==
    /\ spc[s] = "loop" /\ scanAt[s] \notin RawFiles
    /\ spc' = [spc EXCEPT ![s] = "done"]
    /\ UNCHANGED <<items, disk, tmp, added, faults, scanRequestCh, scanAt, encoded,
                   scanLog, exceptScan>>

(* processDisc: a.queue.Add for the file of the title just ripped *)
RipAdd(sourcePath, err) ==
    /\ added < MaxItems
    /\ added' = added + 1
    /\ Saved(Add(items, ItemFor(sourcePath)), err)
    /\ UNCHANGED <<mvars, exceptScan>>

InitScan ==
    /\ QueueInit /\ phase = "running" /\ WorkerInit /\ silent = FALSE
    /\ DetectorInit(CDS_NO_DISC)
    /\ ParserIdle /\ RipIdle /\ LockIdle /\ TitleIdle
    /\ scanRequestCh = 0 /\ spc = [s \in Scanners |-> "none"]
    /\ scanAt = [s \in Scanners |-> 0] /\ scanLog = <<>>
    /\ encoded \in SUBSET RawFiles

NextScan ==
    \/ KeyScan
    \/ \E s \in Scanners : HandleScanRequest(s)
    \/ \E s \in Scanners : ScanCheck(s)
    \/ \E s \in Scanners, err \in BOOLEAN : ScanAdd(s, err)
    \/ \E s \in Scanners : ScanEnd(s)
    \/ \E sourcePath \in RawFiles, err \in BOOLEAN : RipAdd(sourcePath, err)

SpecScan == InitScan /\ [][NextScan]_vars

----------------------------------------------------------------------------
(* SpecOutput: one encode whose encoder prints arbitrary lines; the reader of
   HandBrake.Encode, the forwarder of encodeItem and handleEncodeProgress *)

(* the numbers before the decimal point that a line can carry *)
Wholes == {0, 50, 100, MaxPercent}

(* a line of the encoder's output, as far as progressRegex looks at it: how it
   begins, whether a minus sign stands before the number, the number, and
   whether a percent sign follows *)
OutputLines ==
    [prefix : {"Encoding:", "Progress:", "x264"}, minus : BOOLEAN, whole : Wholes,
     percent : BOOLEAN]

(* progressRegex `(?:Encoding:|Progress:).*?(\d+\.\d+)\s*%` and ParseFloat of the
   digits it captured, which never include a sign; NoValue when there is no match *)
ParsedPercentage(line) ==
    IF line.prefix \in {"Encoding:", "Progress:"} /\ line.percent
    THEN line.whole
    ELSE NoValue

(* the reader goroutine has read a line: the percentage it parses is sent on
   progressCh unless the channel is full *)
EncoderPrints(i, line) ==
    /\ enc[i] = "running" /\ ~silent
    /\ pch' = [pch EXCEPT ![i] = IF ParsedPercentage(line) = NoValue THEN @
                                 ELSE TrySend(@, ParsedPercentage(line))]
    /\ QueueUnused /\ Unrecorded
    /\ UNCHANGED <<items, disk, tmp, added, faults, wpc, cur, paused, shouldDeleteCurrent,
                   controlCh, encodeDone, enc, hbCmd, hbPaused, hold, stale, appCh,
                   currentEncode, encodePaused>>

(* the worker is in encodeItem for item 1, whose encoder has started *)
InitOutput ==
    /\ items = <<[NewItem(1) EXCEPT !.Status = StatusEncoding, !.StartedAt = Now]>>
    /\ disk = Marshal(items) /\ tmp = FileAbsent /\ added = 1 /\ faults = 0 /\ calls = 0
    /\ lock = Unlocked
    /\ qpc = [c \in Callers |-> "idle"]
    /\ qop = [c \in Callers |-> "none"]
    /\ fd = [c \in Callers |-> "none"]
    /\ loaded = [err |-> FALSE, items |-> <<>>]
    /\ lastRet = NoRet /\ prev = <<>>
    /\ phase = "running"
    /\ wpc = "wait" /\ cur = 1 /\ paused = FALSE /\ shouldDeleteCurrent = FALSE
    /\ controlCh = <<>> /\ encodeDone = NoResult
    /\ enc = [i \in IDs |-> IF i = 1 THEN "running" ELSE "none"]
    /\ hbCmd = [id |-> 1, proc |-> TRUE] /\ hbPaused = FALSE
    /\ pch = [i \in IDs |-> <<>>]
    /\ hold = [i \in IDs |-> NoValue]
    /\ stale = {}
    /\ appCh = <<>>
    /\ currentEncode = 1 /\ encodePaused = FALSE
    /\ handled = <<>> /\ done = NoDone /\ notified = [i \in IDs |-> 0]
    /\ silent = FALSE /\ DetectorInit(CDS_NO_DISC)
    /\ OthersIdle

NextOutput ==
    \/ \E line \in OutputLines : EncoderPrints(1, line)
    \/ FwdReceive(1)
    \/ FwdSend(1)
    \/ HandleEncodeProgress

SpecOutput == InitOutput /\ [][NextOutput]_vars

----------------------------------------------------------------------------
(* SpecStop: SpecLive started with an item that the queue file held: what the
   worker does after the operator ends an encode while another item waits *)

InitStop ==
    /\ items = <<NewItem(1)>>
    /\ disk = Marshal(items) /\ tmp = FileAbsent /\ added = 1 /\ faults = 0 /\ calls = 0
    /\ lock = Unlocked
    /\ qpc = [c \in Callers |-> "idle"]
    /\ qop = [c \in Callers |-> "none"]
    /\ fd = [c \in Callers |-> "none"]
    /\ loaded = [err |-> FALSE, items |-> <<>>]
    /\ lastRet = NoRet /\ prev = <<>>
    /\ phase = "running" /\ WorkerInit /\ silent = TRUE /\ DetectorInit(CDS_NO_DISC)
    /\ OthersIdle

SpecStop == InitStop /\ [][NextCtl]_vars /\ Fairness

(* SpecTitle: one call of Client.RipTitle by processDisc, with the two reader
   goroutines it starts, the channels processDisc made for it and closes after
   it, and the goroutines that drain them.  A send on a closed channel makes
   the Go runtime panic; the model records it in `late` and stops the reader. *)

LineKinds == {"plain", "status", "progress"}   \* other, PRGC:/PRGT:, PRGV:

(* what a reader sends for the line it holds, in order *)
SendsFor(r, kind) ==
    IF r = "stderr" THEN <<"log">>
    ELSE IF kind = "status" THEN <<"log", "log">>
    ELSE IF kind = "progress" THEN <<"log", "progress">>
    ELSE <<"log">>

TitleUnused == UNCHANGED <<bvars, tvars, lvars, mvars>>
RipUnchanged == UNCHANGED <<rpc, mon, scanned, selectedTitles, ripIdx, manuallyCancelled,
                            cancelRipCh, titleSelectionCh, ripState, rlog>>

(* processDisc makes the channels and calls RipTitle: cmd.Start, and on success
   the two `go func()` readers *)
TitleStart(ok) ==
    /\ tpc = "none"
    /\ IF ok
       THEN /\ mkv' = "running" /\ tpc' = "wait"
            /\ rd' = [r \in Readers |-> [pc |-> "scan", buf |-> <<>>, line |-> NoLine]]
       ELSE /\ tpc' = "returned"
            /\ UNCHANGED <<mkv, rd>>
    /\ UNCHANGED <<pipe, ripCh, written, late, ripCancelled>>
    /\ RipUnchanged /\ TitleUnused

(* makemkvcon writes a line to stdout or stderr *)
MkvWrite(r, kind) ==
    /\ mkv = "running" /\ written < MaxLines
    /\ r = "stderr" => kind = "plain"
    /\ pipe' = [pipe EXCEPT ![r] = Append(@, kind)]
    /\ written' = written + 1
    /\ UNCHANGED <<mkv, tpc, rd, ripCh, late, ripCancelled>>
    /\ RipUnchanged /\ TitleUnused

(* makemkvcon exits, by itself or killed through the context *)
MkvExit ==
    /\ mkv = "running"
    /\ mkv' = "exited"
    /\ UNCHANGED <<tpc, rd, pipe, ripCh, written, late, ripCancelled>>
    /\ RipUnchanged /\ TitleUnused

(* cancelRip(), from the monitor goroutine *)
TitleCancel ==
    /\ tpc = "wait" /\ ~ripCancelled
    /\ ripCancelled' = TRUE
    /\ UNCHANGED yvars
    /\ RipUnchanged /\ TitleUnused

(* scanner.Scan() of a reader: the next line of its buffer; with an empty
   buffer a Read of the pipe, which fails once cmd.Wait has closed the pipe and
   ends the file when the process has exited *)
ReaderScan(r) ==
    /\ rd[r].pc = "scan"
    /\ IF rd[r].buf # <<>>
       THEN /\ rd' = [rd EXCEPT ![r] = [pc |-> "send", buf |-> Tail(@.buf),
                                        line |-> Head(@.buf)]]
            /\ UNCHANGED pipe
       ELSE IF tpc # "wait"
       THEN /\ rd' = [rd EXCEPT ![r].pc = "end"]
            /\ UNCHANGED pipe
       ELSE IF pipe[r] # <<>>
       THEN /\ rd' = [rd EXCEPT ![r] = [pc |-> "send", buf |-> Tail(pipe[r]),
                                        line |-> Head(pipe[r])]]
            /\ pipe' = [pipe EXCEPT ![r] = <<>>]
       ELSE /\ mkv = "exited"
            /\ rd' = [rd EXCEPT ![r].pc = "end"]
            /\ UNCHANGED pipe
    /\ UNCHANGED <<mkv, tpc, ripCh, written, late, ripCancelled>>
    /\ RipUnchanged /\ TitleUnused

(* what follows the k-th select of a reader for its line *)
AfterSend(r, k) ==
    IF k < Len(SendsFor(r, rd[r].line))
    THEN [rd EXCEPT ![r].pc = "send2"]
    ELSE [rd EXCEPT ![r].pc = "scan", ![r].line = NoLine]

(* one `select { case ch <- v: case <-ctx.Done(): return default: }` of a
   reader: Go takes any case that can proceed, the default when none can; a
   send on a closed channel can proceed, and panics *)
ReaderSelect(r, case) ==
    /\ rd[r].pc \in {"send", "send2"}
    /\ LET k == IF rd[r].pc = "send" THEN 1 ELSE 2
           ch == SendsFor(r, rd[r].line)[k]
           canSend == ripCh[ch].closed \/ ripCh[ch].n < ProgressChCap
       IN  /\ case = "send" => canSend
           /\ case = "done" => ripCancelled
           /\ case = "default" => ~canSend /\ ~ripCancelled
           /\ IF case = "send" /\ ripCh[ch].closed
              THEN /\ late' = late \cup {<<r, ch>>}
                   /\ rd' = [rd EXCEPT ![r].pc = "panic"]
                   /\ UNCHANGED ripCh
              ELSE IF case = "send"
              THEN /\ ripCh' = [ripCh EXCEPT ![ch].n = @ + 1]
                   /\ rd' = AfterSend(r, k)
                   /\ UNCHANGED late
              ELSE IF case = "done"
              THEN /\ rd' = [rd EXCEPT ![r].pc = "end"]
                   /\ UNCHANGED <<ripCh, late>>
              ELSE /\ rd' = AfterSend(r, k)
                   /\ UNCHANGED <<ripCh, late>>
    /\ UNCHANGED <<mkv, tpc, pipe, written, ripCancelled>>
    /\ RipUnchanged /\ TitleUnused

(* cmd.Wait returns after the process has exited and closes the pipes; after
   exit status 0 the final 100 is sent, unless the channel is full; RipTitle
   returns *)
TitleWaitReturns(ok) ==
    /\ tpc = "wait" /\ mkv = "exited"
    /\ pipe' = [r \in Readers |-> <<>>]
    /\ tpc' = "returned"
    /\ ripCh' = IF ok /\ ripCh["progress"].n < ProgressChCap
                THEN [ripCh EXCEPT !["progress"].n = @ + 1]
                ELSE ripCh
    /\ UNCHANGED <<mkv, rd, written, late, ripCancelled>>
    /\ RipUnchanged /\ TitleUnused

(* processDisc: close(ripProgressCh) *)
CloseProgress ==
    /\ tpc = "returned"
    /\ tpc' = "closing"
    /\ ripCh' = [ripCh EXCEPT !["progress"].closed = TRUE]
    /\ UNCHANGED <<mkv, rd, pipe, written, late, ripCancelled>>
    /\ RipUnchanged /\ TitleUnused

(* processDisc: close(ripLogCh) *)
CloseLog ==
    /\ tpc = "closing"
    /\ tpc' = "closed"
    /\ ripCh' = [ripCh EXCEPT !["log"].closed = TRUE]
    /\ UNCHANGED <<mkv, rd, pipe, written, late, ripCancelled>>
    /\ RipUnchanged /\ TitleUnused

(* the goroutines `for v := range ch` of processDisc take a value *)
Drain(ch) ==
    /\ ripCh[ch].n > 0
    /\ ripCh' = [ripCh EXCEPT ![ch].n = @ - 1]
    /\ UNCHANGED <<mkv, tpc, rd, pipe, written, late, ripCancelled>>
    /\ RipUnchanged /\ TitleUnused

InitTitle ==
    /\ QueueInit /\ phase = "running" /\ WorkerInit /\ silent = FALSE
    /\ DetectorInit(CDS_NO_DISC)
    /\ OthersIdle

NextTitle ==
    \/ \E ok \in BOOLEAN : TitleStart(ok)
    \/ \E r \in Readers, kind \in LineKinds : MkvWrite(r, kind)
    \/ MkvExit
    \/ TitleCancel
    \/ \E r \in Readers : ReaderScan(r)
    \/ \E r \in Readers, case \in {"send", "done", "default"} : ReaderSelect(r, case)
    \/ \E ok \in BOOLEAN : TitleWaitReturns(ok)
    \/ CloseProgress
    \/ CloseLog
    \/ \E ch \in Chans : Drain(ch)

SpecTitle == InitTitle /\ [][NextTitle]_vars

----------------------------------------------------------------------------
(* Properties of the parser's functions *)

Selected == args.fn = "SelectTitles" /\ result.done

MovieMode == \E i \in 1..Len(args.titles) : args.titles[i].Duration >= args.movieThreshold

(* C21: movie mode: when a title reaches the movie threshold the result.val is one
   title, of the largest duration of the list, the first of that duration. *)
C21_MovieModeFirstLongest ==
    (Selected /\ MovieMode) =>
        /\ Len(result.val) = 1
        /\ \E i \in 1..Len(args.titles) :
              /\ result.val[1] = args.titles[i]
              /\ \A j \in 1..Len(args.titles) :
                    /\ args.titles[j].Duration <= args.titles[i].Duration
                    /\ args.titles[j].Duration = args.titles[i].Duration => i <= j

(* two titles share the largest duration, which reaches the movie threshold *)
C21_Witness ==
    /\ Selected /\ MovieMode
    /\ \E i, j \in 1..Len(args.titles) :
          /\ i < j /\ args.titles[i].Duration = args.titles[j].Duration
          /\ \A k \in 1..Len(args.titles) : args.titles[k].Duration <= args.titles[i].Duration
          /\ result.val = <<args.titles[i]>>

(* positions of the titles that reach the episode threshold *)
Qualifying == {i \in 1..Len(args.titles) : args.titles[i].Duration >= args.episodeThreshold}

(* C22: episode mode: when no title reaches the movie threshold the result.val is
   the titles that reach the episode threshold, in input order; it is empty
   for the empty list and when none qualifies. *)
C22_EpisodeModeAllQualifying ==
    (Selected /\ ~MovieMode) =>
        /\ Len(result.val) = Cardinality(Qualifying)
        /\ \A k \in 1..Len(result.val) :
              \E i \in Qualifying :
                 /\ Cardinality({j \in Qualifying : j < i}) = k - 1
                 /\ result.val[k] = args.titles[i]

(* a title below the episode threshold lies between two that are selected, one
   of them of exactly the threshold's duration *)
C22_Witness ==
    /\ Selected /\ ~MovieMode
    /\ Len(args.titles) = 3 /\ Len(result.val) = 2
    /\ result.val = <<args.titles[1], args.titles[3]>>
    /\ args.titles[3].Duration = args.episodeThreshold

(* no title qualifies, and nothing is selected *)
C22_WitnessNone == Selected /\ ~MovieMode /\ args.titles # <<>> /\ result.val = <<>>

Calculated == args.fn = "CalculatePercentage" /\ result.done

(* C28: CalculatePercentage is current/max*100 for max > 0 and 0 for max = 0,
   whatever total is. *)
C28_PercentageOfMax ==
    Calculated =>
        /\ result.val.den > 0
        /\ args.max > 0 => result.val.num * args.max = args.current * 100 * result.val.den
        /\ args.max = 0 => result.val.num = 0
        /\ \A t \in ProgressNumbers :
              CalculatePercentage(args.current, t, args.max) = result.val

(* a percentage that is not a whole number, with total different from max *)
C28_Witness ==
    /\ Calculated /\ args.max > 0 /\ args.total # args.max
    /\ result.val.den > 1

----------------------------------------------------------------------------
(* Properties of one disc's processing *)

Of(kind) == SelectSeq(rlog, LAMBDA e : e.e = kind)
IdsOf(kind) == [k \in 1..Len(Of(kind)) |-> Of(kind)[k].id]
Positions(kind) == {p \in 1..Len(rlog) : rlog[p].e = kind}

IsPrefix(a, b) == Len(a) <= Len(b) /\ a = SubSeq(b, 1, Len(a))

(* SelectTitles chose nothing: the task asks the operator *)
ManualSelection == \E p \in Positions("scanned") : rlog[p].id = 0

(* the ids the operator supplied that are ids of scanned titles *)
Wanted ==
    SelectSeq(Of("received")[1].ids, LAMBDA id : \E i \in 1..Len(scanned) : scanned[i].ID = id)

(* processDisc has run its rip loop to the end *)
LoopDone == rpc = "done" /\ ripIdx > Len(selectedTitles)

(* C23: when SelectTitles selects nothing, no rip starts before the operator's
   title ids are received; the task then rips the scanned titles of those ids,
   in the order of the ids, and no other. *)
C23_ManualSelectionDecidesRips ==
    ManualSelection =>
        /\ Of("received") = <<>> => Of("rip") = <<>>
        /\ Of("received") # <<>> =>
              /\ IsPrefix(IdsOf("rip"), Wanted)
              /\ LoopDone => IdsOf("rip") = Wanted

(* the operator marked the second of two titles only, and it was ripped *)
C23_Witness ==
    /\ ManualSelection /\ LoopDone
    /\ Len(scanned) = 2
    /\ Of("received") # <<>> /\ Of("received")[1].ids = <<2>>
    /\ IdsOf("rip") = <<2>>

(* between one RipTitle call and the next, the first has returned *)
Sequential ==
    \A p, q \in Positions("rip") :
        p < q => \E m \in p..q : (rlog[m].e = "ripped" /\ rlog[m].id = rlog[p].id)

(* the file of a rip that returned nil was not found *)
NotFoundAt(m) == rlog[m].e = "file-error"

(* the queue holds the items of the disc in the order they were added *)
QueueInRipOrder ==
    /\ IsPrefix(IdsOf("rip"), TitleIDs(selectedTitles))
    /\ [k \in 1..Len(items) |-> items[k].TitleName] = IdsOf("added")
    /\ \E f \in [1..Len(Of("added")) -> 1..Len(selectedTitles)] :
          /\ \A k \in 1..Len(Of("added")) : selectedTitles[f[k]].ID = IdsOf("added")[k]
          /\ \A j, k \in 1..Len(Of("added")) : j < k => f[j] < f[k]

(* C24: the titles of a disc are ripped one at a time in selection order, and a
   rip that succeeded has its queue item added before the next rip starts. *)
C24_RipsSequentialEveryItemAdded ==
    /\ Sequential /\ QueueInRipOrder
    /\ \A p, q \in Positions("rip") :
          p < q => \A m \in p..q :
             (rlog[m].e = "ripped" /\ rlog[m].id = rlog[p].id /\ rlog[m].ok) =>
                 \E n \in m..q : rlog[n].e = "added" /\ rlog[n].id = rlog[p].id

(* C24 as the code has it: a rip that succeeded and whose output file was found
   has its queue item added before the next rip starts; the items of a disc
   are in the queue in selection order. *)
C24_RipsSequentialFoundItemAdded ==
    /\ Sequential /\ QueueInRipOrder
    /\ \A p, q \in Positions("rip") :
          p < q => \A m \in p..q :
             (rlog[m].e = "ripped" /\ rlog[m].id = rlog[p].id /\ rlog[m].ok) =>
                 \E n \in m..q : /\ rlog[n].id = rlog[p].id
                                  /\ (rlog[n].e = "added" \/ NotFoundAt(n))

(* two titles were ripped and added, one after the other *)
C24_Witness ==
    /\ LoopDone /\ Len(items) = 2
    /\ IdsOf("rip") = <<1, 2>> /\ IdsOf("added") = <<1, 2>>

(* processDisc and its monitor goroutine have ended *)
TaskEnded == rpc = "done" /\ mon = "done"

(* C25: no run of processDisc ends without disk.Eject having been called. *)
C25_EveryEndEjects == TaskEnded => Of("eject") # <<>>

(* the same for the runs whose scan returned titles or that were cancelled *)
C25_EjectsUnlessScanFailed ==
    (TaskEnded /\ (Of("scanned") # <<>> \/ Of("cancel") # <<>>)) => Of("eject") # <<>>

(* C26: after the operator's cancellation has taken effect, no failure of the
   scan or of a rip goes to the UI as an error event, for the title being
   ripped and for those still to be ripped, and no error notification is sent. *)
C26_CancelReportsNoError ==
    \A p \in Positions("cancel") :
        \A m \in p..Len(rlog) : rlog[m].e \notin {"scan-error", "rip-error", "notify"}

(* the same for the scan alone *)
C26_CancelledScanReportsNoError ==
    \A p \in Positions("cancel") : \A m \in p..Len(rlog) : rlog[m].e # "scan-error"

(* the same for the notifications alone *)
C26_CancelSendsNoNotification ==
    \A p \in Positions("cancel") : \A m \in p..Len(rlog) : rlog[m].e # "notify"

----------------------------------------------------------------------------
(* Properties of the lock file *)

(* the instances that have the lock file open as theirs and go on into Run *)
PastLock == {i \in Instances : lpc[i] \in {"write", "running"}}

(* C29: at most one instance of the program is past the acquisition of the lock
   file at any time, whatever lock file the instances find at their start. *)
C29_AtMostOneInstancePastLock == Cardinality(PastLock) <= 1

(* C29, second part: no instance removes, as stale, the lock file of another
   instance whose process exists. *)
C29_LiveLockFileNeverRemoved ==
    \A r \in removals : r.at = "stale" => ~r.live

----------------------------------------------------------------------------
(* Properties of the scan for missing encodes *)

(* C30: no Add of a scan for missing encodes is for a source path that an item
   of the queue has already, with scans and other Adds running beside it. *)
C30_ScanAddsNoQueuedPath == \A n \in 1..Len(scanLog) : ~scanLog[n].dup

(* the same when every item of the queue was added by a scan *)
C30_ScansAloneAddNoQueuedPath ==
    Len(items) = Len(scanLog) => \A n \in 1..Len(scanLog) : ~scanLog[n].dup

----------------------------------------------------------------------------
(* Properties of the progress values *)

(* C31: the progress of every item of the queue is between 0 and 100, whatever
   lines the encoder prints. *)
C31_ProgressWithin0To100 ==
    \A n \in 1..Len(items) : items[n].Progress >= 0 /\ items[n].Progress <= 100

(* the lower half: no progress is negative, also for a number printed with a
   minus sign *)
C31_ProgressNotNegative == \A n \in 1..Len(items) : items[n].Progress >= 0

----------------------------------------------------------------------------
(* Properties of the detector's status reads *)

(* a read that succeeded and returned CDS_DISC_OK *)
ReadyRead(r) == ~r.err /\ r.status = CDS_DISC_OK

(* the detector has read the status in this step, and the read failed *)
ReadFails == polls' = polls + 1 /\ reads'[Len(reads')].err

(* C32: when the detector decides to emit an event, its last two status reads,
   the poll and the read after the settle delay, both succeeded and returned
   ready; a read that fails emits nothing and leads back to the poll. *)
C32_EventAfterTwoReadyReads ==
    [][/\ Decides => (Len(reads') = 2 /\ ReadyRead(reads'[1]) /\ ReadyRead(reads'[2]))
       /\ ReadFails => (~Decides /\ dpc' = "tick")]_vars

(* the detector is at `ch <-` with its first event, after polls that emitted
   nothing and the two ready reads *)
C32_Witness ==
    /\ dpc = "send" /\ emitted = 1 /\ polls > 2
    /\ Len(reads) = 2 /\ ReadyRead(reads[1]) /\ ReadyRead(reads[2])

----------------------------------------------------------------------------
(* Properties of the worker's error handling *)

(* encodeItem returns because SetStatus(item.ID, StatusEncoding) returned an error *)
SetEncodingFails == wpc = "encodeItem" /\ wpc' = "idle"

(* the status of the item of that id in q, NoItem when q has no such item *)
StatusOf(q, id) == IF HasID(q, id) THEN q[FirstIndex(q, id)].Status ELSE NoItem

(* C33: when SetStatus(id, StatusEncoding) returns an error to encodeItem, the
   item has in memory the status it had before the call, not Encoding. *)
C33_FailedSetStatusKeepsStatus ==
    [][SetEncodingFails => StatusOf(items', cur) = StatusOf(items, cur)]_vars

(* what the failed call leaves: the item is Encoding in memory, and the file
   keeps what it held *)
C33_FailedSetStatusLeavesEncoding ==
    [][SetEncodingFails => (StatusOf(items', cur) = StatusEncoding /\ disk' = disk)]_vars

(* handleResult removes the current item from the queue in this step *)
RemovesCurrent == DeleteDisposition /\ wpc' = "idle"

(* history: the item the worker was driving when it handled the last Delete,
   NoItem when it was idle or has handled none *)
RECURSIVE LastDeleteFor(_)
LastDeleteFor(h) ==
    IF h = <<>> THEN NoItem
    ELSE IF h[Len(h)].ctrl = WorkerDelete THEN h[Len(h)].id
    ELSE LastDeleteFor(SubSeq(h, 1, Len(h) - 1))

(* C34: the worker removes an item for a Delete only when that item's encode
   was the active one at the moment it handled the Delete. *)
C34_DeleteRemovesOnlyItsItem ==
    [][RemovesCurrent => LastDeleteFor(handled) = cur]_vars

(* the item removed is always the one the worker is driving, and a Delete has
   been handled with no Stop and no removal after it *)
C34_RemovalNeedsPendingDelete ==
    [][RemovesCurrent => (DeletePending(handled) /\ ~HasID(items', cur))]_vars

(* an encode has just ended by kill/signal, and the worker had handled a Stop
   or a Delete while it drove the item *)
EndedByOperator ==
    /\ Killed
    /\ \E k \in 1..Len(handled) :
          handled[k].id = done.id /\ handled[k].ctrl \in {WorkerStop, WorkerDelete}

(* C35: after a Stop or a Delete has ended the current encode, the worker takes
   the next Queued item in the end without handling a further command, also
   when it had handled a Pause during the encode that was ended. *)
C35_NextItemStartsAfterStop ==
    \A n \in 0..MaxCtlCalls :
        (EndedByOperator /\ GetNext(items) # NoItem /\ Len(handled) = n)
            ~> (wpc = "encodeItem" \/ Len(handled) > n)

(* the pause flag is not set when an encode has been ended by the operator *)
C35_PauseEndsWithEncode ==
    EndedByOperator => ~paused

----------------------------------------------------------------------------
(* RipTitle's reader goroutines and the channels of processDisc *)

(* C36: no value is sent on ripProgressCh or ripLogCh after processDisc has
   closed it. *)
C36_NoSendAfterClose ==
    late = {}

(* a reader goroutine of RipTitle executes a send *)
ReaderSends ==
    \E r \in Readers :
        /\ rd[r].pc \in {"send", "send2"}
        /\ \/ rd'[r].pc = "panic"
           \/ \E c \in Chans : ripCh'[c].n > ripCh[c].n

(* C36, the reader tasks: a reader goroutine of RipTitle sends nothing once
   RipTitle has returned. *)
C36_ReadersSilentAfterReturn ==
    [][ReaderSends => tpc = "wait"]_vars

(* the sends of RipTitle itself all come before the channels are closed: a
   channel is closed only after RipTitle has returned *)
C36_ClosedAfterReturn ==
    \A c \in Chans : ripCh[c].closed => tpc \in {"closing", "closed"}

----------------------------------------------------------------------------
(* The item of a running encoder *)

(* every item with a running encoder process is in the queue with status
   Encoding, and GetCurrent returns it *)
RunningIsCurrent ==
    \A i \in IDs :
        enc[i] = "running" =>
            (HasID(items, i) /\ StatusOf(items, i) = StatusEncoding /\ GetCurrent(items) = i)

(* C37: whenever an encoder process runs for an item, the item is in the queue
   with status Encoding and GetCurrent returns it, whatever the operator does
   with the retry-failed and clear-completed keys. *)
C37_RunningItemIsEncoding ==
    RunningIsCurrent

(* what holds: the item of a running encoder is in the queue, Encoding or reset
   to Queued; clear-completed never removes it *)
C37_RunningItemStaysInQueue ==
    \A i \in IDs :
        enc[i] = "running" =>
            (HasID(items, i) /\ StatusOf(items, i) \in {StatusEncoding, StatusQueued})

----------------------------------------------------------------------------
(* Encode-complete events *)

(* nothing about item i is on its way to handleEncodeProgress: its forwarders
   have delivered everything and the channel to the App is empty *)
Delivered(i) ==
    /\ pch[i] = <<>> /\ hold[i] = NoValue
    /\ \A s \in stale : s.id # i
    /\ appCh = <<>>

CompleteAndDelivered(i) ==
    HasID(items, i) /\ StatusOf(items, i) = StatusComplete /\ Delivered(i)

(* C38: for every item the worker has marked Complete, exactly one
   encode-complete event is emitted, and it names that item: once everything
   sent for the item has been handled, the events that name it are one. *)
C38_OneCompleteEventPerItem ==
    \A i \in IDs : CompleteAndDelivered(i) => notified[i] = 1

(* the weaker half: never more than one event names an item (an event for the
   100 of the item before can name the item that is Encoding now) *)
C38_AtMostOneCompleteEvent ==
    \A i \in IDs : notified[i] <= 1

----------------------------------------------------------------------------
(* Cancel-and-eject across disc tasks *)

(* C39: a cancel-and-eject command cancels only the task that was active when
   it was issued: every cancellation by a monitor follows a command issued
   during the same task. *)
C39_CancelOnlyActiveTask ==
    \A q \in Positions("cancel") :
        \E p \in Positions("x") : p < q /\ TaskOf(p) = TaskOf(q)

(* what holds: the monitors cancel no more often than the operator asked *)
C39_CancelNeedsCommand ==
    \A q \in Positions("cancel") :
        Cardinality({p \in Positions("cancel") : p <= q})
            <= Cardinality({p \in Positions("x") : p < q})

----------------------------------------------------------------------------
(* The order of the titles ParseInfo returns *)

(* ParseInfo has run twice on the same output *)
RanTwice == args.fn = "ParseInfo" /\ args.runs >= 2

(* C40: two runs of ParseInfo on the same output return the same title
   sequence. *)
C40_ParseInfoDeterministic ==
    RanTwice => result.val = args.first

(* C40, for SelectTitles: what it selects from the two results is the same, in
   the same order. *)
C40_SelectionDeterministic ==
    RanTwice => SelectTitles(result.val, MovieMin, EpisodeMin)
                    = SelectTitles(args.first, MovieMin, EpisodeMin)

(* what holds: the two results hold the same titles *)
C40_SameTitles ==
    RanTwice => {result.val[i] : i \in 1..Len(result.val)}
                    = {args.first[i] : i \in 1..Len(args.first)}

============================================================================
